---- MODULE Spec2Model ----
(***************************************************************************)
(* BreadcrumbManager (packages/core/src/managers/breadcrumb-manager.ts)    *)
(* with the helpers it calls (normalizeItems, calculateVisibleItems).      *)
(*                                                                         *)
(* The manager is single threaded and every public method is synchronous,  *)
(* so one step of the model is one top-level call of a public method.  A   *)
(* batch call is one step as well: its callback is an input, a finite      *)
(* sequence of calls on the same manager, run to completion inside the     *)
(* step exactly as batch() runs it.                                         *)
(*                                                                         *)
(* Methods are operators on the record `self` of the instance's fields;    *)
(* they return the instance after the call, with the returned value or the *)
(* thrown exception in the field `ret`.                                     *)
(***************************************************************************)
EXTENDS Integers, Sequences, FiniteSets, TLC

\* ------------------------------------------------------------------ bounds
\* version reached at most (version is unbounded in the code)
MaxVersion == 2
\* largest maxHistoryLength a manager is constructed with
MaxHist == 2
\* number of keys generateKey hands out at most over a run
MaxGen == 1
\* lengths of the lists a caller hands to the constructor, setItems or restoreSnapshot
Lengths == {0, 1}
\* longest list the manager is driven to hold: a longest input and the home item
MaxCount == Cardinality(Lengths)
\* numbers of calls a batch callback makes
CallbackLengths == {0, 1, 2}

\* ------------------------------------------------------------------ values
\* An item is modelled by the two fields the manager and its callers can tell
\* apart here: key and label.  A missing (or empty, equally falsy) key is "".
NoKey == ""

\* types/breadcrumb-config.ts: DEFAULT_HOME_ITEM, its key and its label (the
\* label, a string of two Chinese characters in the source, is written Home)
DEFAULT_HOME_ITEM == [key |-> "home", label |-> "Home"]

\* types/breadcrumb-config.ts: DEFAULT_BREADCRUMB_CONFIG, the fields the manager reads
DEFAULT_BREADCRUMB_CONFIG ==
    [maxItems |-> 0, itemsBeforeCollapse |-> 1, itemsAfterCollapse |-> 2, showHome |-> TRUE]

\* constructor: maxHistoryLength ?? 50
DefaultMaxHistoryLength == 50

Keys == {"a", "home"}
InputItems == {[key |-> k, label |-> "x"] : k \in Keys \cup {NoKey}}
KeyedItems == {i \in InputItems : i.key # NoKey}
Updates == {[label |-> "y"]}
SeqsOf(S, lengths) == UNION {[1..k -> S] : k \in lengths}
ItemLists == SeqsOf(InputItems, Lengths)
Indices == -1..MaxCount

\* ------------------------------------------------------------------ JavaScript helpers
Min(a, b) == IF a < b THEN a ELSE b
Max(a, b) == IF a > b THEN a ELSE b

\* { ...a, ...b }
Spread(a, b) ==
    [f \in DOMAIN a \cup DOMAIN b |-> IF f \in DOMAIN b THEN b[f] ELSE a[f]]

\* Array.prototype.slice(start, end) on a 1-based sequence, 0-based arguments
Slice(s, start, end) ==
    LET n == Len(s)
        from == IF start < 0 THEN Max(n + start, 0) ELSE Min(start, n)
        to == IF end < 0 THEN Max(n + end, 0) ELSE Min(end, n)
    IN IF from >= to THEN <<>> ELSE SubSeq(s, from + 1, to)

\* Array.prototype.splice(start, 0, x): insert x, start clamped as splice clamps it
Splice(s, start, x) ==
    LET n == Len(s)
        at == IF start < 0 THEN Max(n + start, 0) ELSE Min(start, n)
    IN SubSeq(s, 1, at) \o <<x>> \o SubSeq(s, at + 1, n)

\* Array.prototype.filter(item => item.key !== key)
FilterKey(s, key) == SelectSeq(s, LAMBDA i : i.key # key)

\* Array.prototype.findIndex(item => item.key === key), 0-based, -1 when absent
FindIndex(s, key) ==
    IF \E n \in 1..Len(s) : s[n].key = key
    THEN (CHOOSE n \in 1..Len(s) : s[n].key = key /\ \A j \in 1..(n - 1) : s[j].key # key) - 1
    ELSE -1

\* Array.prototype.some(item => item.key === key)
SomeKey(s, key) == \E n \in 1..Len(s) : s[n].key = key

\* ------------------------------------------------------------------ utils/breadcrumb-utils.ts
Digits == <<"0", "1", "2", "3", "4", "5", "6", "7", "8", "9">>

\* a key that carries neither the index nor the time stamp and suffix
generateKeyConstant(index, n) == "item"

\* generateKey(`item-${index}`): prefix, time stamp and random suffix.  The n-th key
\* handed out over a run carries the n-th (time stamp, suffix) pair, which differs
\* from every earlier one.
generateKey(index, n) == "item-" \o Digits[index + 1] \o "-" \o Digits[n + 1]

\* number of items of a list that normalizeItems gives a key to
Keyless(items) == Cardinality({n \in 1..Len(items) : items[n].key = NoKey})

\* normalizeItems(items), keySeq keys having been handed out before the call
normalizeItems(items, keySeq) ==
    [n \in 1..Len(items) |->
        IF items[n].key # NoKey THEN items[n]
        ELSE Spread(items[n],
                    [key |-> generateKey(n - 1, keySeq + Keyless(SubSeq(items, 1, n)))])]

\* calculateVisibleItems(items, config) with the tail taken from the configured
\* number, not from what the head has left of the list
calculateVisibleItemsUnclamped(items, config) ==
    IF config.maxItems = 0 \/ Len(items) <= config.maxItems
    THEN [beforeItems |-> items, collapsedItems |-> <<>>, afterItems |-> <<>>,
          needsCollapse |-> FALSE]
    ELSE LET effectiveBefore == Min(config.itemsBeforeCollapse, Len(items) - 1)
             effectiveAfter == config.itemsAfterCollapse
         IN [beforeItems |-> Slice(items, 0, effectiveBefore),
             collapsedItems |-> Slice(items, effectiveBefore, Len(items) - effectiveAfter),
             afterItems |-> Slice(items, Len(items) - effectiveAfter, Len(items)),
             needsCollapse |-> TRUE]

\* calculateVisibleItems(items, config)
calculateVisibleItems(items, config) ==
    IF config.maxItems = 0 \/ Len(items) <= config.maxItems
    THEN [beforeItems |-> items, collapsedItems |-> <<>>, afterItems |-> <<>>,
          needsCollapse |-> FALSE]
    ELSE LET effectiveBefore == Min(config.itemsBeforeCollapse, Len(items) - 1)
             effectiveAfter == Min(config.itemsAfterCollapse, Len(items) - effectiveBefore)
         IN [beforeItems |-> Slice(items, 0, effectiveBefore),
             collapsedItems |-> Slice(items, effectiveBefore, Len(items) - effectiveAfter),
             afterItems |-> Slice(items, Len(items) - effectiveAfter, Len(items)),
             needsCollapse |-> TRUE]

\* ------------------------------------------------------------------ the instance
VARIABLES
    config,        \* this.config: the fields the manager reads
    state,         \* this.state: items, expanded, visibleItems, version
    history,       \* this.history
    historyIndex,  \* this.historyIndex (0-based, -1 when empty)
    isBatching,    \* this.isBatching
    batchQueue,    \* this.batchQueue
    destroyed,     \* this.destroyed
    keySeq,        \* number of keys generateKey has handed out so far
    emitter,       \* an EventEmitter: this.listeners, this.options
    emissions,     \* the calls of emitAsync that have not returned to their caller
    heap,          \* the arrays and items allocated, by address (where identity is modelled)
    caller         \* the references the caller of the manager holds

vars ==
    <<config, state, history, historyIndex, isBatching, batchQueue, destroyed, keySeq,
      emitter, emissions, heap, caller>>

\* the instance as one value; ret is the outcome of the call in progress, rets
\* the outcomes of the calls a batch callback has made, and emitted the events the
\* call has handed to this.emitter.emit
Self ==
    [config |-> config, state |-> state, history |-> history, historyIndex |-> historyIndex,
     isBatching |-> isBatching, batchQueue |-> batchQueue, destroyed |-> destroyed,
     keySeq |-> keySeq, ret |-> "void", rets |-> <<>>, emitted |-> <<>>]

\* exceptions, as values of ret
DestroyedError == "Error: Manager has been destroyed"
IndexError == "Error: Invalid insert index"
DuplicateError == "Error: Duplicate key"
CallbackError == "Error: thrown by the callback"
UndefinedError == "TypeError: Cannot read properties of undefined"
Errors == {DestroyedError, IndexError, DuplicateError, CallbackError, UndefinedError}

Thrown(m) == m.ret \in Errors
Return(m, value) == [m EXCEPT !.ret = value]
Throw(m, error) == [m EXCEPT !.ret = error]

\* ------------------------------------------------------------------ private methods
\* an assertion that lets a destroyed manager through
assertNothing(m) == m

\* assertNotDestroyed()
assertNotDestroyed(m) ==
    IF m.destroyed THEN Throw(m, DestroyedError) ELSE m

\* buildItems(items)
buildItems(m, items) ==
    LET normalizedItems == normalizeItems(items, m.keySeq)
    IN IF m.config.showHome /\ ~SomeKey(normalizedItems, "home")
       THEN <<m.config.homeItem>> \o normalizedItems
       ELSE normalizedItems

\* createSnapshot(); the time stamp of a snapshot is never read by the manager and
\* is left out
createSnapshot(m) ==
    [items |-> m.state.items, expanded |-> m.state.expanded, version |-> m.state.version]

\* saveToHistory() without the limit on the length of the history
saveToHistoryUnlimited(m) ==
    LET cut == IF m.historyIndex < Len(m.history) - 1
               THEN Slice(m.history, 0, m.historyIndex + 1)
               ELSE m.history
        pushed == Append(cut, createSnapshot(m))
    IN [m EXCEPT !.history = pushed, !.historyIndex = Len(pushed) - 1]

\* saveToHistory()
saveToHistory(m) ==
    LET cut == IF m.historyIndex < Len(m.history) - 1
               THEN Slice(m.history, 0, m.historyIndex + 1)
               ELSE m.history
        pushed == Append(cut, createSnapshot(m))
    IN IF Len(pushed) > m.config.maxHistoryLength
       THEN [m EXCEPT !.history = Tail(pushed), !.historyIndex = Len(pushed) - 1 - 1]
       ELSE [m EXCEPT !.history = pushed, !.historyIndex = Len(pushed) - 1]

\* updateState(partial)
updateState(m, partial) ==
    LET m1 == [m EXCEPT !.state =
                   Spread(Spread(m.state, partial), [version |-> m.state.version + 1])]
    IN IF m.config.enableHistory /\ ~m.isBatching THEN saveToHistory(m1) ELSE m1

\* a restore that goes through updateState, and so records the restored state
restoreSnapshotIntoHistory(m, snapshot) ==
    updateState(m, [items |-> snapshot.items,
                    expanded |-> snapshot.expanded,
                    visibleItems |-> calculateVisibleItems(snapshot.items, m.config)])

\* a restore that takes the version of the snapshot with its items
restoreSnapshotWithVersion(m, snapshot) ==
    [m EXCEPT !.state =
        [items |-> snapshot.items,
         expanded |-> snapshot.expanded,
         visibleItems |-> calculateVisibleItems(snapshot.items, m.config),
         version |-> snapshot.version]]

\* restoreSnapshotWithoutHistory(snapshot)
restoreSnapshotWithoutHistory(m, snapshot) ==
    [m EXCEPT !.state =
        [items |-> snapshot.items,
         expanded |-> snapshot.expanded,
         visibleItems |-> calculateVisibleItems(snapshot.items, m.config),
         version |-> m.state.version + 1]]

\* ------------------------------------------------------------------ public methods
\* setItems(items) leaving the expand flag as it is
setItemsKeepingExpanded(m, items) ==
    LET a == assertNotDestroyed(m)
        newItems == buildItems(m, items)
        m1 == [m EXCEPT !.keySeq = @ + Keyless(items)]
    IN IF Thrown(a) THEN a
       ELSE Return(updateState(m1, [items |-> newItems,
                                    visibleItems |-> calculateVisibleItems(newItems, m.config)]),
                   "void")

\* setItems(items)
setItems(m, items) ==
    LET a == assertNotDestroyed(m)
        newItems == buildItems(m, items)
        m1 == [m EXCEPT !.keySeq = @ + Keyless(items)]
    IN IF Thrown(a) THEN a
       ELSE Return(updateState(m1, [items |-> newItems,
                                    visibleItems |-> calculateVisibleItems(newItems, m.config),
                                    expanded |-> FALSE]),
                   "void")

\* addItem(item, index?) without the check for a key already in the list
addItemUnchecked(m, call) ==
    LET a == assertNotDestroyed(m)
        newItems == m.state.items
        insertIndex == IF "index" \in DOMAIN call THEN call.index ELSE Len(newItems)
    IN IF Thrown(a) THEN a
       ELSE IF m.isBatching
       THEN Return([m EXCEPT !.batchQueue =
                        Append(@, Spread([type |-> "add"], [f \in DOMAIN call \ {"op"} |-> call[f]]))],
                   "void")
       ELSE IF insertIndex < 0 \/ insertIndex > Len(newItems) THEN Throw(m, IndexError)
       ELSE setItems(m, Splice(newItems, insertIndex, call.item))

\* addItem(item, index?); a call without index is a record without that field
addItem(m, call) ==
    LET a == assertNotDestroyed(m)
        newItems == m.state.items
        insertIndex == IF "index" \in DOMAIN call THEN call.index ELSE Len(newItems)
    IN IF Thrown(a) THEN a
       ELSE IF m.isBatching
       THEN Return([m EXCEPT !.batchQueue =
                        Append(@, Spread([type |-> "add"], [f \in DOMAIN call \ {"op"} |-> call[f]]))],
                   "void")
       ELSE IF insertIndex < 0 \/ insertIndex > Len(newItems) THEN Throw(m, IndexError)
       ELSE IF SomeKey(newItems, call.item.key) THEN Throw(m, DuplicateError)
       ELSE setItems(m, Splice(newItems, insertIndex, call.item))

\* removeItem(key) committing whether or not the key is in the list
removeItemAnyway(m, key) ==
    LET a == assertNotDestroyed(m)
    IN IF Thrown(a) THEN a
       ELSE IF m.isBatching
       THEN Return([m EXCEPT !.batchQueue = Append(@, [type |-> "remove", key |-> key])], "true")
       ELSE Return(setItems(m, FilterKey(m.state.items, key)),
                   IF FindIndex(m.state.items, key) = -1 THEN "false" ELSE "true")

\* removeItem(key)
removeItem(m, key) ==
    LET a == assertNotDestroyed(m)
    IN IF Thrown(a) THEN a
       ELSE IF m.isBatching
       THEN Return([m EXCEPT !.batchQueue = Append(@, [type |-> "remove", key |-> key])], "true")
       ELSE IF FindIndex(m.state.items, key) = -1 THEN Return(m, "false")
       ELSE Return(setItems(m, FilterKey(m.state.items, key)), "true")

\* updateItem(key, updates)
updateItem(m, key, updates) ==
    LET a == assertNotDestroyed(m)
        index == FindIndex(m.state.items, key)
    IN IF Thrown(a) THEN a
       ELSE IF m.isBatching
       THEN Return([m EXCEPT !.batchQueue =
                        Append(@, [type |-> "update", key |-> key, updates |-> updates])],
                   "true")
       ELSE IF index = -1 THEN Return(m, "false")
       ELSE Return(setItems(m, [m.state.items EXCEPT
                                   ![index + 1] = Spread(m.state.items[index + 1], updates)]),
                   "true")

\* this.emitter.emit(event, data), as the manager calls it
emit(m, event, data) == [m EXCEPT !.emitted = Append(@, [event |-> event, data |-> data])]

\* setExpanded(expanded) emitting expandChange whether or not the flag changes
setExpandedAlways(m, expanded) ==
    LET a == assertNotDestroyed(m)
    IN IF Thrown(a) THEN a
       ELSE IF m.state.expanded # expanded
       THEN Return(emit(updateState(m, [expanded |-> expanded]),
                        "expandChange", [expanded |-> expanded]),
                   "void")
       ELSE Return(emit(m, "expandChange", [expanded |-> expanded]), "void")

\* setExpanded(expanded)
setExpanded(m, expanded) ==
    LET a == assertNotDestroyed(m)
    IN IF Thrown(a) THEN a
       ELSE IF m.state.expanded # expanded
       THEN Return(emit(updateState(m, [expanded |-> expanded]),
                        "expandChange", [expanded |-> expanded]),
                   "void")
       ELSE Return(m, "void")

\* toggleExpand()
toggleExpand(m) ==
    LET a == assertNotDestroyed(m)
    IN IF Thrown(a) THEN a ELSE setExpanded(m, ~m.state.expanded)

\* updateConfig(config) that commits a new version for the three numbers but keeps
\* the projection computed under the old ones
updateConfigStale(m, partial) ==
    LET a == assertNotDestroyed(m)
        m1 == [m EXCEPT !.config = Spread(m.config, partial)]
        m2 == IF {"maxItems", "itemsBeforeCollapse", "itemsAfterCollapse"} \cap DOMAIN partial # {}
              THEN updateState(m1, [visibleItems |->
                                       calculateVisibleItems(m1.state.items, m.config)])
              ELSE m1
        m3 == IF "homeItem" \in DOMAIN partial
              THEN [m2 EXCEPT !.config.homeItem = Spread(DEFAULT_HOME_ITEM, partial.homeItem)]
              ELSE m2
    IN IF Thrown(a) THEN a
       ELSE IF {"showHome", "homeItem"} \cap DOMAIN partial # {}
       THEN setItems(m3, FilterKey(m3.state.items, "home"))
       ELSE Return(m2, "void")

\* updateConfig(config) that rebuilds the list without taking the home items out
updateConfigKeepingHome(m, partial) ==
    LET a == assertNotDestroyed(m)
        m1 == [m EXCEPT !.config = Spread(m.config, partial)]
        m2 == IF {"maxItems", "itemsBeforeCollapse", "itemsAfterCollapse"} \cap DOMAIN partial # {}
              THEN updateState(m1, [visibleItems |->
                                       calculateVisibleItems(m1.state.items, m1.config)])
              ELSE m1
        m3 == IF "homeItem" \in DOMAIN partial
              THEN [m2 EXCEPT !.config.homeItem = Spread(DEFAULT_HOME_ITEM, partial.homeItem)]
              ELSE m2
    IN IF Thrown(a) THEN a
       ELSE IF {"showHome", "homeItem"} \cap DOMAIN partial # {}
       THEN setItems(m3, m3.state.items)
       ELSE Return(m2, "void")

\* updateConfig(config)
updateConfig(m, partial) ==
    LET a == assertNotDestroyed(m)
        m1 == [m EXCEPT !.config = Spread(m.config, partial)]
        m2 == IF {"maxItems", "itemsBeforeCollapse", "itemsAfterCollapse"} \cap DOMAIN partial # {}
              THEN updateState(m1, [visibleItems |->
                                       calculateVisibleItems(m1.state.items, m1.config)])
              ELSE m1
        m3 == IF "homeItem" \in DOMAIN partial
              THEN [m2 EXCEPT !.config.homeItem = Spread(DEFAULT_HOME_ITEM, partial.homeItem)]
              ELSE m2
    IN IF Thrown(a) THEN a
       ELSE IF {"showHome", "homeItem"} \cap DOMAIN partial # {}
       THEN setItems(m3, FilterKey(m3.state.items, "home"))
       ELSE Return(m2, "void")

\* restoreSnapshot(snapshot)
restoreSnapshot(m, snapshot) ==
    LET a == assertNotDestroyed(m)
    IN IF Thrown(a) THEN a
       ELSE Return(updateState(m, [items |-> snapshot.items,
                                   expanded |-> snapshot.expanded,
                                   visibleItems |-> calculateVisibleItems(snapshot.items, m.config)]),
                   "void")

\* undo() reading the snapshot before the pointer moves
undoInPlace(m) ==
    IF ~m.config.enableHistory \/ m.historyIndex <= 0 THEN Return(m, "false")
    ELSE LET m1 == [m EXCEPT !.historyIndex = @ - 1]
         IN IF m.historyIndex + 1 \in DOMAIN m.history
            THEN Return(restoreSnapshotWithoutHistory(m1, m.history[m.historyIndex + 1]), "true")
            ELSE Throw(m1, UndefinedError)

\* undo(); history[historyIndex] is undefined when the index is past the end of the
\* array, and reading snapshot.items then throws before this.state is assigned
undo(m) ==
    IF ~m.config.enableHistory \/ m.historyIndex <= 0 THEN Return(m, "false")
    ELSE LET m1 == [m EXCEPT !.historyIndex = @ - 1]
         IN IF m1.historyIndex + 1 \in DOMAIN m1.history
            THEN Return(restoreSnapshotWithoutHistory(m1, m1.history[m1.historyIndex + 1]), "true")
            ELSE Throw(m1, UndefinedError)

\* redo()
redo(m) ==
    IF ~m.config.enableHistory \/ m.historyIndex >= Len(m.history) - 1 THEN Return(m, "false")
    ELSE LET m1 == [m EXCEPT !.historyIndex = @ + 1]
         IN IF m1.historyIndex + 1 \in DOMAIN m1.history
            THEN Return(restoreSnapshotWithoutHistory(m1, m1.history[m1.historyIndex + 1]), "true")
            ELSE Throw(m1, UndefinedError)

\* deepClone(obj): a structured clone is a value equal to obj that shares nothing
\* with it; values here have no identity, so equality is all there is to keep
deepClone(obj) == obj

\* getItems()
getItems(m) == deepClone(m.state.items)

\* getVisibleItems() returning the stored projection whatever the expand flag
getVisibleItemsStored(m) == deepClone(m.state.visibleItems)

\* getVisibleItems()
getVisibleItems(m) ==
    IF m.state.expanded
    THEN [beforeItems |-> deepClone(m.state.items), collapsedItems |-> <<>>,
          afterItems |-> <<>>, needsCollapse |-> FALSE]
    ELSE deepClone(m.state.visibleItems)

\* get canUndo
canUndo(m) == m.config.enableHistory /\ m.historyIndex > 0

\* get canRedo
canRedo(m) == m.config.enableHistory /\ m.historyIndex < Len(m.history) - 1

\* getItem(key): the item found, as a set of at most one item
getItem(m, key) ==
    IF FindIndex(m.state.items, key) = -1 THEN {} ELSE {m.state.items[FindIndex(m.state.items, key) + 1]}

\* clearHistory()
clearHistory(m) ==
    LET m1 == [m EXCEPT !.history = <<>>, !.historyIndex = -1]
    IN Return(IF m.config.enableHistory THEN saveToHistory(m1) ELSE m1, "void")

\* destroy(); the emitter it clears holds no field of the manager
destroy(m) ==
    IF m.destroyed THEN Return(m, "void")
    ELSE Return([m EXCEPT !.history = <<>>, !.batchQueue = <<>>, !.destroyed = TRUE], "void")

\* ------------------------------------------------------------------ batch
\* executeBatch(): one pass of the loop over this.batchQueue
applyOperation(items, op) ==
    CASE op.type = "add" ->
            Splice(items, IF "index" \in DOMAIN op THEN op.index ELSE Len(items), op.item)
      [] op.type = "remove" -> FilterKey(items, op.key)
      [] op.type = "update" ->
            IF FindIndex(items, op.key) # -1
            THEN [items EXCEPT ![FindIndex(items, op.key) + 1] = Spread(@, op.updates)]
            ELSE items
      [] op.type = "replace" -> op.items

RECURSIVE applyQueueBackwards(_, _)
\* the loop taken from the last queued operation to the first
applyQueueBackwards(items, queue) ==
    IF queue = <<>> THEN items
    ELSE applyOperation(applyQueueBackwards(items, Tail(queue)), Head(queue))

RECURSIVE applyQueue(_, _)
\* executeBatch(): the loop over this.batchQueue
applyQueue(items, queue) ==
    IF queue = <<>> THEN items
    ELSE applyQueue(applyOperation(items, Head(queue)), Tail(queue))

\* executeBatch()
executeBatch(m) == setItems(m, applyQueue(m.state.items, m.batchQueue))

RECURSIVE dispatch(_, _)
RECURSIVE runCallback(_, _)

\* batch(callback) running executeBatch() whether or not the callback has thrown
batchCommittingOnThrow(m, callback) ==
    LET a == assertNotDestroyed(m)
        m1 == [m EXCEPT !.isBatching = TRUE, !.batchQueue = <<>>]
        m2 == runCallback(m1, callback.calls)
        m3 == IF Thrown(m2) THEN m2
              ELSE IF callback.throws THEN Throw(executeBatch(m2), CallbackError)
              ELSE executeBatch(m2)
    IN IF Thrown(a) THEN a
       ELSE [m3 EXCEPT !.isBatching = FALSE, !.batchQueue = <<>>]

\* batch(callback) that, called while a batch is active, leaves the queue and the
\* flag of that batch as they are
batchKeepingQueue(m, callback) ==
    LET a == assertNotDestroyed(m)
        m1 == IF m.isBatching THEN m ELSE [m EXCEPT !.isBatching = TRUE, !.batchQueue = <<>>]
        m2 == runCallback(m1, callback.calls)
        m3 == IF Thrown(m2) THEN m2
              ELSE IF callback.throws THEN Throw(m2, CallbackError)
              ELSE executeBatch(m2)
    IN IF Thrown(a) THEN a
       ELSE IF m.isBatching THEN m3
       ELSE [m3 EXCEPT !.isBatching = FALSE, !.batchQueue = <<>>]

\* batch(callback): the callback is the sequence of calls it makes and whether it
\* throws after them; a call that throws inside the callback ends it with that exception
batch(m, callback) ==
    LET a == assertNotDestroyed(m)
        m1 == [m EXCEPT !.isBatching = TRUE, !.batchQueue = <<>>]
        m2 == runCallback(m1, callback.calls)
        m3 == IF Thrown(m2) THEN m2
              ELSE IF callback.throws THEN Throw(m2, CallbackError)
              ELSE executeBatch(m2)
    IN IF Thrown(a) THEN a
       ELSE [m3 EXCEPT !.isBatching = FALSE, !.batchQueue = <<>>]

\* the body of a callback: its calls in order, up to the first one that throws
runCallback(m, calls) ==
    IF calls = <<>> THEN Return(m, "void")
    ELSE LET r == dispatch(Return(m, "void"), Head(calls))
             r1 == [r EXCEPT !.rets = Append(@, r.ret)]
         IN IF Thrown(r) THEN r1 ELSE runCallback(r1, Tail(calls))

\* a call of a public method, as a record naming the method and its arguments
dispatch(m, call) ==
    CASE call.op = "setItems" -> setItems(m, call.items)
      [] call.op = "addItem" -> addItem(m, call)
      [] call.op = "removeItem" -> removeItem(m, call.key)
      [] call.op = "updateItem" -> updateItem(m, call.key, call.updates)
      [] call.op = "batch" -> batch(m, call.callback)
      [] call.op = "toggleExpand" -> toggleExpand(m)
      [] call.op = "setExpanded" -> setExpanded(m, call.expanded)
      [] call.op = "updateConfig" -> updateConfig(m, call.config)
      [] call.op = "restoreSnapshot" -> restoreSnapshot(m, call.snapshot)
      [] call.op = "undo" -> undo(m)
      [] call.op = "redo" -> redo(m)
      [] call.op = "clearHistory" -> clearHistory(m)
      [] call.op = "destroy" -> destroy(m)

\* ------------------------------------------------------------------ constructor
\* constructor(config); given holds items and the options the caller sets
constructor(given) ==
    LET cfg == Spread(DEFAULT_BREADCRUMB_CONFIG,
                      [showHome |-> given.showHome,
                       enableHistory |-> given.enableHistory,
                       maxHistoryLength |-> given.maxHistoryLength,
                       homeItem |-> IF "homeItem" \in DOMAIN given
                                    THEN Spread(DEFAULT_HOME_ITEM, given.homeItem)
                                    ELSE DEFAULT_HOME_ITEM])
        m0 == [config |-> cfg, state |-> <<>>, history |-> <<>>, historyIndex |-> -1,
               isBatching |-> FALSE, batchQueue |-> <<>>, destroyed |-> FALSE,
               keySeq |-> 0, ret |-> "void", rets |-> <<>>, emitted |-> <<>>]
        initialItems == buildItems(m0, given.items)
        m1 == [m0 EXCEPT !.state = [items |-> initialItems,
                                    expanded |-> FALSE,
                                    visibleItems |-> calculateVisibleItems(initialItems, cfg),
                                    version |-> 0],
                         !.keySeq = Keyless(given.items)]
    IN IF cfg.enableHistory THEN saveToHistory(m1) ELSE m1

\* ------------------------------------------------------------------ utils/event-emitter.ts
\* Methods of EventEmitter are operators on the record E of the instance's fields,
\* as those of the manager are: they return the instance after the call, with the
\* returned value in ret, the handlers invoked by the call, in order, in invoked,
\* and the errors handed to options.onError in errors.

\* the events of the EventMap
Events == {"click"}
\* the payloads given to emit
Payloads == {"d", "e"}
Priorities == {0, 1}

\* The handler functions, by what their body does when it is invoked:
\*   plain    returns
\*   throws   throws
\*   adds     calls on(event, plain, 0) on the emitter and returns
\*   removes  calls off(event, plain) on the emitter and returns
\* What a handler returns may be a promise; emit does not look at it, and emitAsync
\* awaits it: it resolves or rejects later, whichever the handler is.
Handlers == {"plain", "throws", "adds", "removes"}
ThrowsSync(handler) == handler = "throws"
\* the subscriptions a caller makes: a handler and a priority
Subscriptions ==
    {[handler |-> handler, priority |-> priority] :
        handler \in {"plain", "throws"}, priority \in Priorities}
    \cup {[handler |-> handler, priority |-> 0] : handler \in {"adds", "removes"}}

\* EventEmitter.DEFAULT_OPTIONS: continueOnError (onError is the field errors)
DEFAULT_OPTIONS == [continueOnError |-> TRUE]

\* new EventEmitter(options); an event without array in this.listeners has the empty
\* array here (off deletes the array it empties, addListener creates it), and
\* infos counts the HandlerInfo objects created so far
NewEmitter(opts) ==
    [listeners |-> [event \in Events |-> <<>>],
     options |-> Spread(DEFAULT_OPTIONS, opts),
     infos |-> 0,
     ret |-> "void", invoked |-> <<>>, errors |-> <<>>]

\* handlers.findIndex(h => h.priority > priority), 0-based, -1 when there is none
FindPriorityAbove(handlers, priority) ==
    IF \E n \in 1..Len(handlers) : handlers[n].priority > priority
    THEN (CHOOSE n \in 1..Len(handlers) :
             /\ handlers[n].priority > priority
             /\ \A j \in 1..(n - 1) : ~(handlers[j].priority > priority)) - 1
    ELSE -1

\* handlers.findIndex(h => h.handler === handler), 0-based, -1 when there is none
FindHandler(handlers, handler) ==
    IF \E n \in 1..Len(handlers) : handlers[n].handler = handler
    THEN (CHOOSE n \in 1..Len(handlers) :
             /\ handlers[n].handler = handler
             /\ \A j \in 1..(n - 1) : handlers[j].handler # handler) - 1
    ELSE -1

\* addListener putting the new HandlerInfo before those of its own priority
addListenerBeforeEqual(E, event, handler, priority, once) ==
    LET handlers == E.listeners[event]
        info == [id |-> E.infos + 1, handler |-> handler, priority |-> priority, once |-> once]
        insertIndex == FindPriorityAbove(handlers, priority - 1)
    IN Return([E EXCEPT !.listeners[event] = IF insertIndex = -1 THEN Append(handlers, info)
                                             ELSE Splice(handlers, insertIndex, info),
                        !.infos = @ + 1],
              "unsubscribe")

\* addListener(event, handler, priority, once); id is the identity of the
\* HandlerInfo object created
addListener(E, event, handler, priority, once) ==
    LET handlers == E.listeners[event]
        info == [id |-> E.infos + 1, handler |-> handler, priority |-> priority, once |-> once]
        insertIndex == FindPriorityAbove(handlers, priority)
    IN Return([E EXCEPT !.listeners[event] = IF insertIndex = -1 THEN Append(handlers, info)
                                             ELSE Splice(handlers, insertIndex, info),
                        !.infos = @ + 1],
              "unsubscribe")

\* on(event, handler, priority)
on(E, event, handler, priority) == addListener(E, event, handler, priority, FALSE)

\* once(event, handler, priority)
once(E, event, handler, priority) == addListener(E, event, handler, priority, TRUE)

\* off(event, handler)
off(E, event, handler) ==
    LET handlers == E.listeners[event]
        index == FindHandler(handlers, handler)
    IN IF index = -1 THEN Return(E, "void")
       ELSE Return([E EXCEPT !.listeners[event] =
                       SubSeq(handlers, 1, index) \o SubSeq(handlers, index + 2, Len(handlers))],
                   "void")

\* offAll(event)
offAll(E, event) == Return([E EXCEPT !.listeners[event] = <<>>], "void")

\* info.handler(data): what the body of the handler does to the emitter
invoke(E, info, event) ==
    CASE info.handler = "adds" -> on(E, event, "plain", 0)
      [] info.handler = "removes" -> off(E, event, "plain")
      [] OTHER -> E

RECURSIVE removeOnces(_, _, _)
\* emit, emitAsync: for (const info of oncesToRemove) this.off(event, info.handler)
removeOnces(E, event, oncesToRemove) ==
    IF oncesToRemove = <<>> THEN E
    ELSE removeOnces(off(E, event, Head(oncesToRemove).handler), event, Tail(oncesToRemove))

RECURSIVE dispatchFromWhateverFails(_, _, _, _, _, _)
\* the loop of emit going on after a handler has thrown, whatever continueOnError
dispatchFromWhateverFails(E, event, data, handlersCopy, i, oncesToRemove) ==
    IF i > Len(handlersCopy) THEN [E |-> E, oncesToRemove |-> oncesToRemove]
    ELSE LET info == handlersCopy[i]
             E1 == [invoke(E, info, event) EXCEPT
                       !.invoked = Append(@, [id |-> info.id, handler |-> info.handler,
                                              data |-> data])]
             E2 == [E1 EXCEPT !.errors = Append(@, [error |-> info.id, event |-> event])]
         IN IF ~ThrowsSync(info.handler)
            THEN dispatchFromWhateverFails(E1, event, data, handlersCopy, i + 1,
                              IF info.once THEN Append(oncesToRemove, info) ELSE oncesToRemove)
            ELSE dispatchFromWhateverFails(E2, event, data, handlersCopy, i + 1, oncesToRemove)

RECURSIVE dispatchFrom(_, _, _, _, _, _)
\* emit: the loop over handlersCopy from its i-th element on; the instance and
\* oncesToRemove when the loop is left
dispatchFrom(E, event, data, handlersCopy, i, oncesToRemove) ==
    IF i > Len(handlersCopy) THEN [E |-> E, oncesToRemove |-> oncesToRemove]
    ELSE LET info == handlersCopy[i]
             E1 == [invoke(E, info, event) EXCEPT
                       !.invoked = Append(@, [id |-> info.id, handler |-> info.handler,
                                              data |-> data])]
             E2 == [E1 EXCEPT !.errors = Append(@, [error |-> info.id, event |-> event])]
         IN IF ~ThrowsSync(info.handler)
            THEN dispatchFrom(E1, event, data, handlersCopy, i + 1,
                              IF info.once THEN Append(oncesToRemove, info) ELSE oncesToRemove)
            ELSE IF ~E.options.continueOnError
            THEN [E |-> E2, oncesToRemove |-> oncesToRemove]
            ELSE dispatchFrom(E2, event, data, handlersCopy, i + 1, oncesToRemove)

\* emit(event, data) looping over the array of this.listeners itself, not over a copy
emitOverLiveArray(E, event, data) ==
    LET RECURSIVE liveFrom(_, _, _)
        liveFrom(E0, i, oncesToRemove) ==
            IF i > Len(E0.listeners[event]) THEN [E |-> E0, oncesToRemove |-> oncesToRemove]
            ELSE LET info == E0.listeners[event][i]
                     E1 == [invoke(E0, info, event) EXCEPT
                               !.invoked = Append(@, [id |-> info.id, handler |-> info.handler,
                                                      data |-> data])]
                     E2 == [E1 EXCEPT !.errors = Append(@, [error |-> info.id, event |-> event])]
                 IN IF ~ThrowsSync(info.handler)
                    THEN liveFrom(E1, i + 1,
                                  IF info.once THEN Append(oncesToRemove, info) ELSE oncesToRemove)
                    ELSE IF ~E0.options.continueOnError
                    THEN [E |-> E2, oncesToRemove |-> oncesToRemove]
                    ELSE liveFrom(E2, i + 1, oncesToRemove)
        left == liveFrom(E, 1, <<>>)
    IN IF Len(E.listeners[event]) = 0 THEN Return(E, "false")
       ELSE Return(removeOnces(left.E, event, left.oncesToRemove), "true")

\* emit(event, data)
EventEmitter_emit(E, event, data) ==
    LET handlers == E.listeners[event]
        left == dispatchFrom(E, event, data, handlers, 1, <<>>)
    IN IF Len(handlers) = 0 THEN Return(E, "false")
       ELSE Return(removeOnces(left.E, event, left.oncesToRemove), "true")

\* A call of emitAsync that has not returned to its caller: its arguments, its
\* handlersCopy and oncesToRemove, the position index of the handler the loop is at,
\* the positions started (in the order they were started), pending (the positions
\* whose handler has been started and whose promise has not settled), the errors
\* handed to options.onError, and the promise of the call: "awaiting" until the
\* function returns, then resolved with ret.
NewEmission(event, data, handlersCopy) ==
    [event |-> event, data |-> data, handlersCopy |-> handlersCopy, oncesToRemove |-> <<>>,
     index |-> 0, started |-> <<>>, pending |-> {}, errors |-> <<>>,
     status |-> "awaiting", ret |-> "void"]

\* emitAsync: after the loop, the one-shot handlers are removed and true is returned
emitAsyncReturn(E, emission) ==
    [E |-> removeOnces(E, emission.event, emission.oncesToRemove),
     emission |-> [emission EXCEPT !.status = "returned", !.ret = "true"]]

RECURSIVE emitAsyncStartingAll(_, _, _)
\* the loop of emitAsync starting every handler without awaiting the one before
emitAsyncStartingAll(E, emission, i) ==
    IF i > Len(emission.handlersCopy) THEN [E |-> E, emission |-> emission]
    ELSE LET info == emission.handlersCopy[i]
             E1 == invoke(E, info, emission.event)
             started == [emission EXCEPT !.index = i, !.started = Append(@, i)]
             failed == [started EXCEPT !.errors = Append(@, info.id)]
         IN IF ThrowsSync(info.handler)
            THEN IF ~E.options.continueOnError THEN emitAsyncReturn(E1, failed)
                 ELSE emitAsyncStartingAll(E1, failed, i + 1)
            ELSE emitAsyncStartingAll(E1, [started EXCEPT !.pending = @ \cup {i}], i + 1)

RECURSIVE emitAsyncFrom(_, _, _)
\* emitAsync: the loop over handlersCopy from its i-th element on, up to the next
\* await that suspends the function or to its return; a handler that throws is
\* caught without suspending
emitAsyncFrom(E, emission, i) ==
    IF i > Len(emission.handlersCopy) THEN emitAsyncReturn(E, emission)
    ELSE LET info == emission.handlersCopy[i]
             E1 == invoke(E, info, emission.event)
             started == [emission EXCEPT !.index = i, !.started = Append(@, i)]
             failed == [started EXCEPT !.errors = Append(@, info.id)]
         IN IF ThrowsSync(info.handler)
            THEN IF ~E.options.continueOnError THEN emitAsyncReturn(E1, failed)
                 ELSE emitAsyncFrom(E1, failed, i + 1)
            ELSE [E |-> E1, emission |-> [started EXCEPT !.pending = @ \cup {i}]]

\* emitAsync(event, data): the call, up to its first await or to its return
emitAsync(E, event, data) ==
    LET handlers == E.listeners[event]
    IN IF Len(handlers) = 0
       THEN [E |-> E,
             emission |-> [NewEmission(event, data, handlers) EXCEPT
                              !.status = "returned", !.ret = "false"]]
       ELSE emitAsyncFrom(E, NewEmission(event, data, handlers), 1)

\* emitAsync resumed when the promise it awaits settles: resolved, the handler is
\* noted if it is one-shot; rejected, the error goes to onError and the loop is left
\* unless continueOnError; then the loop goes on
emitAsyncResume(E, emission, rejected) ==
    LET i == emission.index
        info == emission.handlersCopy[i]
        settled == [emission EXCEPT !.pending = @ \ {i}]
        failed == [settled EXCEPT !.errors = Append(@, info.id)]
    IN IF rejected
       THEN IF ~E.options.continueOnError THEN emitAsyncReturn(E, failed)
            ELSE emitAsyncFrom(E, failed, i + 1)
       ELSE emitAsyncFrom(E, [settled EXCEPT !.oncesToRemove =
                                  IF info.once THEN Append(@, info) ELSE @],
                          i + 1)

\* ------------------------------------------------------------------ the manager over references
\* Where two values may be one object, arrays of items and items are objects of a
\* heap: heap[a] is the object at address a, an array [elems |-> the addresses of
\* its items] or an item [key, label, meta].  The state of the manager then holds
\* addresses (state.items, state.visibleItems.beforeItems, ...).  Numbers and
\* booleans are values and cannot be shared; version is left out, and so is the
\* history (enableHistory is false).  A method is an operator on the record H of
\* heap, state and config, with the value returned in ret.
\*
\* meta is what the copying functions make of an item:
\*   data             structuredClone copies it
\*   function         it holds a function: structuredClone throws, and the JSON
\*                    round trip copies it without the function
\*   functionInCycle  it holds a function and a cycle: structuredClone throws and
\*                    JSON.stringify throws
Metas == {"data", "function", "functionInCycle"}

IsArray(object) == "elems" \in DOMAIN object

\* the items of the array at an address, as values
Deref(h, a) == [k \in 1..Len(h[a].elems) |-> h[h[a].elems[k]]]

\* the objects reached from a set of addresses
Reach(h, roots) ==
    roots \cup UNION {{h[a].elems[k] : k \in 1..Len(h[a].elems)} : a \in {r \in roots : IsArray(h[r])}}

\* structuredClone(item), or JSON.parse(JSON.stringify(item)) when viaJSON
CopyOfItem(item, viaJSON) ==
    IF viaJSON /\ item.meta = "function" THEN [item EXCEPT !.meta = "data"] ELSE item

RECURSIVE cloneArrays(_, _, _, _)
\* the copy of the arrays of a value, one after the other; structuredClone makes
\* one copy of an array the value holds twice, the JSON round trip makes two
cloneArrays(h, arrays, viaJSON, done) ==
    IF Len(done) = Len(arrays) THEN [heap |-> h, ret |-> done]
    ELSE LET a == arrays[Len(done) + 1]
             earlier == {k \in 1..Len(done) : arrays[k] = a}
             n == Len(h[a].elems)
         IN IF earlier # {} /\ ~viaJSON
            THEN cloneArrays(h, arrays, viaJSON, Append(done, done[CHOOSE k \in earlier : TRUE]))
            ELSE cloneArrays(h \o [k \in 1..n |-> CopyOfItem(h[h[a].elems[k]], viaJSON)]
                               \o <<[elems |-> [k \in 1..n |-> Len(h) + k]]>>,
                             arrays, viaJSON, Append(done, Len(h) + n + 1))

\* deepClone(obj) of the item at an address: the address of the copy, or of the
\* item itself when neither way of copying works
deepCloneItem(h, a) ==
    IF h[a].meta = "functionInCycle" THEN [heap |-> h, ret |-> a]
    ELSE [heap |-> Append(h, CopyOfItem(h[a], TRUE)), ret |-> Len(h) + 1]

\* deepClone that hands back the value it is given
deepCloneNothing(h, arrays) == [heap |-> h, ret |-> arrays]

\* deepClone(obj) of a value that holds the arrays at the addresses given: the
\* addresses of the copies, or of the arrays themselves (obj is returned) when
\* neither way of copying works
deepCloneArrays(h, arrays) ==
    LET metas == {h[i].meta : i \in Reach(h, {arrays[k] : k \in 1..Len(arrays)})
                                       \ {arrays[k] : k \in 1..Len(arrays)}}
    IN IF "functionInCycle" \in metas THEN [heap |-> h, ret |-> arrays]
       ELSE cloneArrays(h, arrays, "function" \in metas, <<>>)

\* calculateVisibleItems(items, config) on the array at an address: without collapse
\* beforeItems is that array and the two others are new arrays; with collapse the
\* three are new arrays (slices) of the same items
Heap_calculateVisibleItems(h, items, cfg) ==
    LET v == calculateVisibleItems(h[items].elems, cfg)
        n == Len(h)
    IN IF v.needsCollapse
       THEN [heap |-> h \o <<[elems |-> v.beforeItems], [elems |-> v.collapsedItems],
                             [elems |-> v.afterItems]>>,
             ret |-> [beforeItems |-> n + 1, collapsedItems |-> n + 2, afterItems |-> n + 3,
                      needsCollapse |-> TRUE]]
       ELSE [heap |-> h \o <<[elems |-> <<>>], [elems |-> <<>>]>>,
             ret |-> [beforeItems |-> items, collapsedItems |-> n + 1, afterItems |-> n + 2,
                      needsCollapse |-> FALSE]]

\* setItems(items), the items given as values: normalizeItems makes a new array of
\* new items ({ ...item, key }), showHome being false
Heap_setItems(H, items) ==
    LET n == Len(items)
        h1 == H.heap \o items \o <<[elems |-> [k \in 1..n |-> Len(H.heap) + k]]>>
        v == Heap_calculateVisibleItems(h1, Len(h1), H.config)
    IN [H EXCEPT !.heap = v.heap,
                 !.state = [items |-> Len(h1), expanded |-> FALSE, visibleItems |-> v.ret],
                 !.ret = "void"]

\* constructor(config)
Heap_constructor(given) ==
    Heap_setItems([heap |-> <<>>, state |-> <<>>, ret |-> "void",
                   config |-> Spread(DEFAULT_BREADCRUMB_CONFIG,
                                     [showHome |-> FALSE, maxItems |-> given.maxItems])],
                  given.items)

\* updateItem(key, updates)
Heap_updateItem(H, key, updates) ==
    LET items == Deref(H.heap, H.state.items)
        index == FindIndex(items, key)
    IN IF index = -1 THEN Return(H, "false")
       ELSE Return(Heap_setItems(H, [items EXCEPT ![index + 1] = Spread(@, updates)]), "true")

\* setExpanded(expanded)
Heap_setExpanded(H, expanded) == Return([H EXCEPT !.state.expanded = expanded], "void")

\* getItems(): the array returned
Heap_getItems(H) ==
    LET c == deepCloneArrays(H.heap, <<H.state.items>>)
    IN [H EXCEPT !.heap = c.heap, !.ret = {c.ret[1]}]

\* getItem(key): the item returned, none when the key is not found
Heap_getItem(H, key) ==
    LET index == FindIndex(Deref(H.heap, H.state.items), key)
        c == deepCloneItem(H.heap, H.heap[H.state.items].elems[index + 1])
    IN IF index = -1 THEN [H EXCEPT !.ret = {}]
       ELSE [H EXCEPT !.heap = c.heap, !.ret = {c.ret}]

\* getState(): the arrays of the state returned
Heap_getState(H) ==
    LET v == H.state.visibleItems
        c == deepCloneArrays(H.heap,
                             <<H.state.items, v.beforeItems, v.collapsedItems, v.afterItems>>)
    IN [H EXCEPT !.heap = c.heap, !.ret = {c.ret[k] : k \in 1..4}]

\* getVisibleItems(): the arrays of the value returned
Heap_getVisibleItems(H) ==
    LET v == H.state.visibleItems
        all == deepCloneArrays(H.heap, <<H.state.items>>)
        c == deepCloneArrays(H.heap, <<v.beforeItems, v.collapsedItems, v.afterItems>>)
    IN IF H.state.expanded
       THEN [H EXCEPT !.heap = all.heap \o <<[elems |-> <<>>], [elems |-> <<>>]>>,
                      !.ret = {all.ret[1], Len(all.heap) + 1, Len(all.heap) + 2}]
       ELSE [H EXCEPT !.heap = c.heap, !.ret = {c.ret[k] : k \in 1..3}]

\* createSnapshot(): the snapshot returned (its time stamp and version are numbers)
Heap_createSnapshot(H) ==
    LET c == deepCloneArrays(H.heap, <<H.state.items>>)
    IN [H EXCEPT !.heap = c.heap,
                 !.ret = [items |-> c.ret[1], expanded |-> H.state.expanded]]

\* restoreSnapshot(snapshot)
Heap_restoreSnapshot(H, snapshot) ==
    LET c == deepCloneArrays(H.heap, <<snapshot.items>>)
        v == Heap_calculateVisibleItems(c.heap, snapshot.items, H.config)
    IN [H EXCEPT !.heap = v.heap,
                 !.state = [items |-> c.ret[1], expanded |-> snapshot.expanded,
                            visibleItems |-> v.ret],
                 !.ret = "void"]

\* what the caller does to an object it holds: it takes the last element out of an
\* array (pop), it assigns the label of an item
Mutated(h, a) ==
    IF IsArray(h[a]) THEN [h EXCEPT ![a].elems = SubSeq(@, 1, Len(@) - 1)]
    ELSE [h EXCEPT ![a].label = "z"]

\* ------------------------------------------------------------------ inputs
\* the configurations a manager is constructed with
PlainGivens ==
    {[items |-> items, showHome |-> showHome, enableHistory |-> TRUE,
      maxHistoryLength |-> maxHistoryLength] :
        items \in ItemLists, showHome \in BOOLEAN, maxHistoryLength \in 1..MaxHist}
    \cup
    {[items |-> items, showHome |-> showHome, enableHistory |-> FALSE,
      maxHistoryLength |-> DefaultMaxHistoryLength] :
        items \in ItemLists, showHome \in BOOLEAN}
\* config.homeItem: a home item under a key of the caller's
HomeItems == {[key |-> "root"]}
Givens ==
    PlainGivens
    \cup {Spread(given, [homeItem |-> homeItem]) : given \in PlainGivens, homeItem \in HomeItems}

SetCalls == {[op |-> "setItems", items |-> items] : items \in ItemLists}
AddCalls ==
    {[op |-> "addItem", item |-> item] : item \in InputItems}
    \cup {[op |-> "addItem", item |-> item, index |-> index] :
            item \in InputItems, index \in Indices}
RemoveCalls == {[op |-> "removeItem", key |-> key] : key \in Keys}
UpdateCalls ==
    {[op |-> "updateItem", key |-> "a", updates |-> updates] : updates \in Updates}
ExpandCalls ==
    {[op |-> "toggleExpand"]}
    \cup {[op |-> "setExpanded", expanded |-> expanded] : expanded \in BOOLEAN}
ConfigCalls ==
    {[op |-> "updateConfig", config |-> [showHome |-> b]] : b \in BOOLEAN}
    \cup {[op |-> "updateConfig", config |-> [maxItems |-> n]] : n \in {0, 1}}
\* snapshots a caller can hold: createSnapshot() of this or of another manager
RestoreCalls ==
    {[op |-> "restoreSnapshot",
      snapshot |-> [items |-> items, expanded |-> expanded, version |-> 0]] :
        items \in SeqsOf(KeyedItems, Lengths), expanded \in BOOLEAN}

\* the calls a batch callback makes, and the callbacks
QueuedCalls ==
    {c \in AddCalls : (c.item.key = "a" /\ ("index" \in DOMAIN c => c.index = 0))
                       \/ (c.item.key = NoKey /\ "index" \notin DOMAIN c)}
    \cup RemoveCalls \cup UpdateCalls
PureCallbacks ==
    {[calls |-> calls, throws |-> FALSE] : calls \in SeqsOf(QueuedCalls, CallbackLengths)}
ThrowingCallbacks ==
    {[calls |-> calls, throws |-> TRUE] : calls \in SeqsOf(QueuedCalls, {0, 1})}
BatchCalls ==
    {[op |-> "batch", callback |-> callback] : callback \in PureCallbacks \cup ThrowingCallbacks}
\* callbacks that call batch themselves, after a call that is queued
NestingCallbacks ==
    {[calls |-> <<call, [op |-> "batch", callback |-> callback]>>, throws |-> FALSE] :
        call \in QueuedCalls, callback \in {c \in PureCallbacks : Len(c.calls) <= 1}}
\* callbacks that make one call of a method that does not look at the batching flag
CommittingCallbacks ==
    {[calls |-> <<call>>, throws |-> FALSE] :
        call \in SetCalls \cup ExpandCalls \cup ConfigCalls \cup RestoreCalls}

\* ------------------------------------------------------------------ specification
Init ==
    \E given \in Givens :
        \E m \in {constructor(given)} :
           /\ m.keySeq <= MaxGen
           /\ config = m.config
           /\ state = m.state
           /\ history = m.history
           /\ historyIndex = m.historyIndex
           /\ isBatching = m.isBatching
           /\ batchQueue = m.batchQueue
           /\ destroyed = m.destroyed
           /\ keySeq = m.keySeq
           /\ emitter = NewEmitter(DEFAULT_OPTIONS)
           /\ emissions = <<>>
           /\ heap = <<>>
           /\ caller = <<>>

\* the bounds of the exploration, on the instance a call leaves
Within(m) ==
    /\ m.state.version <= MaxVersion
    /\ Len(m.state.items) <= MaxCount
    /\ m.keySeq <= MaxGen

\* the instance after a call
Becomes(m) ==
    /\ config' = m.config
    /\ state' = m.state
    /\ history' = m.history
    /\ historyIndex' = m.historyIndex
    /\ isBatching' = m.isBatching
    /\ batchQueue' = m.batchQueue
    /\ destroyed' = m.destroyed
    /\ keySeq' = m.keySeq
    /\ UNCHANGED <<emitter, emissions, heap, caller>>

\* one action per public method: a top-level call with arguments from the input sets
SetItems ==
    \E call \in SetCalls : \E m \in {dispatch(Self, call)} : Within(m) /\ Becomes(m)
AddItem ==
    \E call \in AddCalls : \E m \in {dispatch(Self, call)} : Within(m) /\ Becomes(m)
RemoveItem ==
    \E call \in RemoveCalls : \E m \in {dispatch(Self, call)} : Within(m) /\ Becomes(m)
UpdateItem ==
    \E call \in UpdateCalls : \E m \in {dispatch(Self, call)} : Within(m) /\ Becomes(m)
Batch ==
    \E call \in BatchCalls
               \cup {[op |-> "batch", callback |-> callback] :
                        callback \in NestingCallbacks \cup CommittingCallbacks} :
        \E m \in {dispatch(Self, call)} : Within(m) /\ Becomes(m)
ToggleExpand ==
    \E m \in {dispatch(Self, [op |-> "toggleExpand"])} : Within(m) /\ Becomes(m)
SetExpanded ==
    \E expanded \in BOOLEAN :
        \E m \in {dispatch(Self, [op |-> "setExpanded", expanded |-> expanded])} :
            Within(m) /\ Becomes(m)
UpdateConfig ==
    \E call \in ConfigCalls : \E m \in {dispatch(Self, call)} : Within(m) /\ Becomes(m)
RestoreSnapshot ==
    \E call \in RestoreCalls : \E m \in {dispatch(Self, call)} : Within(m) /\ Becomes(m)
Undo ==
    \E m \in {dispatch(Self, [op |-> "undo"])} : Within(m) /\ Becomes(m)
Redo ==
    \E m \in {dispatch(Self, [op |-> "redo"])} : Within(m) /\ Becomes(m)
ClearHistory ==
    \E m \in {dispatch(Self, [op |-> "clearHistory"])} : Within(m) /\ Becomes(m)
Destroy ==
    \E m \in {dispatch(Self, [op |-> "destroy"])} : Within(m) /\ Becomes(m)

Next ==
    \/ SetItems
    \/ AddItem
    \/ RemoveItem
    \/ UpdateItem
    \/ Batch
    \/ ToggleExpand
    \/ SetExpanded
    \/ UpdateConfig
    \/ RestoreSnapshot
    \/ Undo
    \/ Redo
    \/ ClearHistory
    \/ Destroy

Spec == Init /\ [][Next]_vars

\* ------------------------------------------------------------------ calculateVisibleItems alone
\* The function on its own arguments: state.items holds the list given, config the
\* three numbers given, and state.visibleItems the value returned once the
\* function has been applied.
MaxListLength == 4
MaxNumber == 3
\* the value not returned yet
Pending == [pending |-> TRUE]

\* one list of every length, of items that differ
ListOfLength(n) == [k \in 1..n |-> [key |-> Digits[k + 1], label |-> "x"]]

VisibleInit ==
    \E n \in 0..MaxListLength, maxItems \in 0..MaxNumber,
       itemsBeforeCollapse \in 0..MaxNumber, itemsAfterCollapse \in 0..MaxNumber :
        /\ config = [maxItems |-> maxItems,
                     itemsBeforeCollapse |-> itemsBeforeCollapse,
                     itemsAfterCollapse |-> itemsAfterCollapse]
        /\ state = [items |-> ListOfLength(n), visibleItems |-> Pending]
        /\ history = <<>>
        /\ historyIndex = -1
        /\ isBatching = FALSE
        /\ batchQueue = <<>>
        /\ destroyed = FALSE
        /\ keySeq = 0
        /\ emitter = NewEmitter(DEFAULT_OPTIONS)
        /\ emissions = <<>>
        /\ heap = <<>>
        /\ caller = <<>>

CalculateVisibleItems ==
    /\ "pending" \in DOMAIN state.visibleItems
    /\ state' = [state EXCEPT !.visibleItems = calculateVisibleItems(state.items, config)]
    /\ UNCHANGED <<config, history, historyIndex, isBatching, batchQueue, destroyed, keySeq,
                   emitter, emissions, heap, caller>>

VisibleNext == CalculateVisibleItems

SpecVisible == VisibleInit /\ [][VisibleNext]_vars

\* ------------------------------------------------------------------ EventEmitter alone
\* An emitter on its own, driven by a caller that subscribes, unsubscribes, emits
\* and lets the promises of the handlers settle in any order that JavaScript allows.
\* HandlerInfo objects created at most over a run
MaxInfos == 3
\* calls of emitAsync that have not returned to their caller, at most
MaxEmissions == 1

\* the instance between two calls
Settled(E) == [E EXCEPT !.ret = "void", !.invoked = <<>>, !.errors = <<>>]

\* the emitter belongs to no manager
NoManager ==
    /\ config = <<>>
    /\ state = <<>>
    /\ history = <<>>
    /\ historyIndex = -1
    /\ isBatching = FALSE
    /\ batchQueue = <<>>
    /\ destroyed = FALSE
    /\ keySeq = 0
    /\ heap = <<>>
    /\ caller = <<>>

EmitterInit ==
    \E continueOnError \in BOOLEAN :
        /\ emitter = NewEmitter([continueOnError |-> continueOnError])
        /\ emissions = <<>>
        /\ NoManager

EmitterBecomes(E) ==
    /\ E.infos <= MaxInfos
    /\ emitter' = Settled(E)
    /\ UNCHANGED <<config, state, history, historyIndex, isBatching, batchQueue, destroyed, keySeq,
                   heap, caller>>

On ==
    \E event \in Events, s \in Subscriptions :
        EmitterBecomes(on(emitter, event, s.handler, s.priority)) /\ UNCHANGED emissions
Once ==
    \E event \in Events, s \in Subscriptions :
        EmitterBecomes(once(emitter, event, s.handler, s.priority)) /\ UNCHANGED emissions
Off ==
    \E event \in Events, handler \in Handlers :
        EmitterBecomes(off(emitter, event, handler)) /\ UNCHANGED emissions
OffAll ==
    \E event \in Events :
        EmitterBecomes(offAll(emitter, event)) /\ UNCHANGED emissions
Emit ==
    \E event \in Events, data \in {"d"} :
        EmitterBecomes(EventEmitter_emit(emitter, event, data)) /\ UNCHANGED emissions
EmitAsync ==
    /\ Len(emissions) < MaxEmissions
    /\ \E event \in Events, data \in {"d"} :
          \E r \in {emitAsync(emitter, event, data)} :
             /\ EmitterBecomes(r.E)
             /\ emissions' = Append(emissions, r.emission)
\* the promise that a call of emitAsync awaits settles, and the call goes on
Settle ==
    \E k \in 1..Len(emissions) :
        /\ emissions[k].status = "awaiting"
        /\ \E rejected \in BOOLEAN :
              \E r \in {emitAsyncResume(emitter, emissions[k], rejected)} :
                 /\ EmitterBecomes(r.E)
                 /\ emissions' = [emissions EXCEPT ![k] = r.emission]
\* the caller of emitAsync takes the value its promise resolved with
Returned ==
    \E k \in 1..Len(emissions) :
        /\ emissions[k].status = "returned"
        /\ emissions' = SubSeq(emissions, 1, k - 1) \o SubSeq(emissions, k + 1, Len(emissions))
        /\ EmitterBecomes(emitter)

EmitterNext ==
    \/ On
    \/ Once
    \/ Off
    \/ OffAll
    \/ Emit
    \/ EmitAsync
    \/ Settle
    \/ Returned

SpecEmitter == EmitterInit /\ [][EmitterNext]_vars

\* ------------------------------------------------------------------ the manager and its caller
\* A manager over the heap, and a caller that reads, keeps the last value
\* returned and one snapshot, changes the objects it holds and calls the manager.
\* objects held at most by the manager and the caller together
MaxObjects == 16
\* the changes the caller makes at most to the objects it holds
MaxMutations == 2

\* the managers constructed: one item of each kind, or two items and maxItems 1,
\* which collapses them
HeapGivens ==
    {[items |-> <<[key |-> "a", label |-> "x", meta |-> meta]>>, maxItems |-> 0] :
        meta \in Metas}
    \cup {[items |-> <<[key |-> "a", label |-> "x", meta |-> "data"],
                       [key |-> "b", label |-> "x", meta |-> "data"]>>, maxItems |-> 1]}

HeapSelf == [heap |-> heap, state |-> state, config |-> config, ret |-> "void"]

\* the caller holds a snapshot
HoldsSnapshot == "items" \in DOMAIN caller.snapshot

HeapInit ==
    \E given \in HeapGivens :
        \E H \in {Heap_constructor(given)} :
           /\ heap = H.heap
           /\ state = H.state
           /\ config = H.config
           /\ caller = [returned |-> {}, snapshot |-> <<>>, mutations |-> 0]
           /\ history = <<>>
           /\ historyIndex = -1
           /\ isBatching = FALSE
           /\ batchQueue = <<>>
           /\ destroyed = FALSE
           /\ keySeq = 0
           /\ emitter = NewEmitter(DEFAULT_OPTIONS)
           /\ emissions = <<>>

\* the arrays the state of the manager holds
StateArrays(st) ==
    {st.items, st.visibleItems.beforeItems, st.visibleItems.collapsedItems,
     st.visibleItems.afterItems}

\* the arrays the caller holds
CallerRoots(c) ==
    c.returned \cup (IF "items" \in DOMAIN c.snapshot THEN {c.snapshot.items} ELSE {})

\* The objects of h that are in live, at the addresses 1, 2, ... in the order of
\* their allocation; at[a] is the new address of the object at a.
Compacted(h, live, at) ==
    [i \in 1..Cardinality(live) |->
        LET object == h[CHOOSE a \in live : at[a] = i]
        IN IF IsArray(object)
           THEN [elems |-> [k \in 1..Len(object.elems) |-> at[object.elems[k]]]]
           ELSE object]

\* The manager and the caller after a call.  An object that no reference leads to
\* any more is gone (it cannot be told from one that was never made).
HeapBecomes(H, c) ==
    \E live \in {Reach(H.heap, StateArrays(H.state) \cup CallerRoots(c))} :
      \E at \in {[a \in live |-> Cardinality({b \in live : b <= a})]} :
       /\ Cardinality(live) <= MaxObjects
       /\ heap' = Compacted(H.heap, live, at)
       /\ state' = [items |-> at[H.state.items],
                    expanded |-> H.state.expanded,
                    visibleItems |->
                        [beforeItems |-> at[H.state.visibleItems.beforeItems],
                         collapsedItems |-> at[H.state.visibleItems.collapsedItems],
                         afterItems |-> at[H.state.visibleItems.afterItems],
                         needsCollapse |-> H.state.visibleItems.needsCollapse]]
       /\ caller' = [returned |-> {at[a] : a \in c.returned},
                     snapshot |-> IF "items" \in DOMAIN c.snapshot
                                  THEN [c.snapshot EXCEPT !.items = at[@]]
                                  ELSE c.snapshot,
                     mutations |-> c.mutations]
       /\ UNCHANGED <<config, history, historyIndex, isBatching, batchQueue, destroyed, keySeq,
                      emitter, emissions>>

\* the caller with the value a read has returned in place of what it held
Holding(ret) == [caller EXCEPT !.returned = ret, !.snapshot = <<>>]

GetItems ==
    \E H \in {Heap_getItems(HeapSelf)} : HeapBecomes(H, Holding(H.ret))
GetItem ==
    \E key \in {"a", "b"} :
        \E H \in {Heap_getItem(HeapSelf, key)} : HeapBecomes(H, Holding(H.ret))
GetState ==
    \E H \in {Heap_getState(HeapSelf)} : HeapBecomes(H, Holding(H.ret))
GetVisibleItems ==
    \E H \in {Heap_getVisibleItems(HeapSelf)} : HeapBecomes(H, Holding(H.ret))
CreateSnapshot ==
    \E H \in {Heap_createSnapshot(HeapSelf)} : 
        HeapBecomes(H, [caller EXCEPT !.returned = {}, !.snapshot = H.ret])
RestoreHeld ==
    /\ HoldsSnapshot
    /\ HeapBecomes(Heap_restoreSnapshot(HeapSelf, caller.snapshot), caller)
UpdateHeld ==
    \E key \in {"a", "b"} :
        HeapBecomes(Heap_updateItem(HeapSelf, key, [label |-> "y"]), caller)
ExpandHeld ==
    \E expanded \in BOOLEAN :
        HeapBecomes(Heap_setExpanded(HeapSelf, expanded), caller)
\* the caller changes an object of the value returned to it, or of its snapshot
MutateReturned ==
    /\ caller.mutations < MaxMutations
    /\ \E a \in Reach(heap, caller.returned) :
          HeapBecomes([HeapSelf EXCEPT !.heap = Mutated(heap, a)],
                      [caller EXCEPT !.mutations = @ + 1])
MutateSnapshot ==
    /\ HoldsSnapshot
    /\ caller.mutations < MaxMutations
    /\ \E a \in Reach(heap, {caller.snapshot.items}) :
          HeapBecomes([HeapSelf EXCEPT !.heap = Mutated(heap, a)],
                      [caller EXCEPT !.mutations = @ + 1])

HeapNext ==
    \/ GetItems
    \/ GetItem
    \/ GetState
    \/ GetVisibleItems
    \/ CreateSnapshot
    \/ RestoreHeld
    \/ UpdateHeld
    \/ ExpandHeld
    \/ MutateReturned
    \/ MutateSnapshot

SpecHeap == HeapInit /\ [][HeapNext]_vars

\* ------------------------------------------------------------------ claims
\* Every claim is stated over the reachable states of the manager between two calls:
\* a method being a function of the instance and its arguments, "after the call" is
\* the value of the method on the state, whatever the bounds of the exploration.

Live == ~destroyed

\* C1: with history enabled (and room for two snapshots), a batch whose callback
\* only calls addItem/removeItem/updateItem leaves canUndo true, and one undo()
\* brings back the list that was current before the batch.
C1_BatchIsOneHistoryEntry ==
    (Live /\ config.enableHistory /\ config.maxHistoryLength >= 2) =>
        \A callback \in PureCallbacks :
            LET m == batch(Self, callback)
            IN /\ canUndo(m)
               /\ undo(m).ret = "true"
               /\ undo(m).state.items = state.items

\* the list a queued call turns a list into, written from the meaning of the call:
\* the item put at its position, the items of a key left out, the first item of a key
\* overlaid with the fields given
Applied(items, call) ==
    LET n == Len(items)
        first == CHOOSE k \in 1..n : items[k].key = call.key /\ \A j \in 1..(k - 1) : items[j].key # call.key
        before == IF "index" \notin DOMAIN call THEN n
                  ELSE IF call.index < 0 THEN Max(n + call.index, 0)
                  ELSE Min(call.index, n)
    IN CASE call.op = "addItem" ->
                [k \in 1..(n + 1) |->
                    IF k <= before THEN items[k]
                    ELSE IF k = before + 1 THEN call.item
                    ELSE items[k - 1]]
         [] call.op = "removeItem" -> SelectSeq(items, LAMBDA i : i.key # call.key)
         [] call.op = "updateItem" ->
                IF \E k \in 1..n : items[k].key = call.key
                THEN [k \in 1..n |->
                        IF k = first
                        THEN [f \in DOMAIN items[k] \cup DOMAIN call.updates |->
                                IF f \in DOMAIN call.updates THEN call.updates[f] ELSE items[k][f]]
                        ELSE items[k]]
                ELSE items

RECURSIVE AppliedInOrder(_, _)
\* the calls applied one after another, the last call last
AppliedInOrder(items, calls) ==
    IF calls = <<>> THEN items
    ELSE Applied(AppliedInOrder(items, SubSeq(calls, 1, Len(calls) - 1)), calls[Len(calls)])

\* C2: a batch whose callback only calls addItem/removeItem/updateItem raises
\* version by exactly 1, and its list is the queued calls applied in call order to
\* the list before the batch, then normalized and given the home item.
C2_BatchAppliesQueueInOrder ==
    Live =>
        \A callback \in PureCallbacks :
            \A m \in {batch(Self, callback)} :
               /\ m.ret = "void"
               /\ m.state.version = state.version + 1
               /\ m.state.items = buildItems(Self, AppliedInOrder(state.items, callback.calls))

\* C2 witness: a manager that has been driven, on which the order of two queued
\* calls decides the list the batch leaves
C2_Witness ==
    /\ Live
    /\ state.version > 0
    /\ \E callback \in PureCallbacks :
          /\ Len(callback.calls) = 2
          /\ batch(Self, callback).state.items
                # batch(Self, [callback EXCEPT !.calls = <<callback.calls[2], callback.calls[1]>>]).state.items

\* the calls that commit a state when they succeed
CommittingCalls ==
    SetCalls \cup AddCalls \cup RemoveCalls \cup UpdateCalls \cup ExpandCalls
    \cup ConfigCalls \cup RestoreCalls
    \cup {[op |-> "batch", callback |-> callback] : callback \in PureCallbacks}

\* C3: with history enabled, once a call that follows an undo() has committed a
\* state (version has grown), canRedo is false and redo() returns false.
C3_CommitDiscardsRedo ==
    (Live /\ config.enableHistory /\ canRedo(Self)) =>
        \A call \in CommittingCalls :
            LET m == dispatch(Self, call)
            IN (~Thrown(m) /\ m.state.version > state.version) =>
                   (~canRedo(m) /\ redo(m).ret = "false")

RECURSIVE Undos(_)
\* the number of consecutive undo() calls that return true
Undos(m) == IF canUndo(m) /\ undo(m).ret = "true" THEN 1 + Undos(undo(m)) ELSE 0

\* C5: in every reachable state the history holds at most maxHistoryLength
\* snapshots; a commit made when the history is full evicts the oldest snapshot and
\* leaves the pointer on the newest one; at most maxHistoryLength - 1 consecutive
\* undo() calls return true.
C5_HistoryIsCapped ==
    /\ Len(history) <= config.maxHistoryLength
    /\ Undos(Self) <= config.maxHistoryLength - 1
    /\ (Live /\ config.enableHistory) =>
          \A call \in SetCalls :
              \A m \in {dispatch(Self, call)}, kept \in {SubSeq(history, 1, historyIndex + 1)} :
                 /\ Len(m.history) <= config.maxHistoryLength
                 /\ m.historyIndex = Len(m.history) - 1
                 /\ m.history[Len(m.history)] = createSnapshot(m)
                 /\ Len(kept) = config.maxHistoryLength =>
                        m.history = Append(SubSeq(kept, 2, Len(kept)), createSnapshot(m))

\* C5 witness: a full history of at least two snapshots with the pointer on the
\* newest, from which a commit evicts the oldest
C5_Witness ==
    /\ Live
    /\ config.enableHistory
    /\ config.maxHistoryLength >= 2
    /\ Len(history) = config.maxHistoryLength
    /\ historyIndex = Len(history) - 1
    /\ Undos(Self) = config.maxHistoryLength - 1
    /\ \E call \in SetCalls :
          /\ dispatch(Self, call).history[1] = history[2]
          /\ Len(dispatch(Self, call).history) = config.maxHistoryLength

\* C6: undo() and redo() leave the history as it is, length and contents; with
\* enableHistory false both return false and leave items, expanded and version as
\* they are.
C6_UndoRedoKeepHistory ==
    /\ undo(Self).history = history
    /\ redo(Self).history = history
    /\ ~config.enableHistory =>
          /\ undo(Self).ret = "false"
          /\ redo(Self).ret = "false"
          /\ undo(Self).state = state
          /\ redo(Self).state = state

\* C6 witness: a state from which undo() succeeds and moves the pointer, and on
\* whose result redo() succeeds
C6_Witness ==
    /\ undo(Self).ret = "true"
    /\ undo(Self).historyIndex = historyIndex - 1
    /\ undo(Self).state.items # state.items
    /\ redo(undo(Self)).ret = "true"
    /\ Len(history) >= 2

\* C7: in every reachable state the items of the list have pairwise distinct keys.
C7_KeysAreUnique ==
    \A i \in 1..Len(state.items), j \in 1..Len(state.items) :
        i # j => state.items[i].key # state.items[j].key

\* C8: addItem(item, index) outside a batch throws when index is outside
\* [0, length] or when item.key is the key of an item of the list, and then items,
\* expanded, version, visibleItems and the history are as before the call.
C8_AddItemRejectsAndKeeps ==
    \A call \in AddCalls :
        LET outside == "index" \in DOMAIN call /\ call.index \notin 0..Len(state.items)
            taken == \E k \in 1..Len(state.items) : state.items[k].key = call.item.key
        IN (outside \/ taken) =>
           \A m \in {addItem(Self, call)} :
              /\ Thrown(m)
              /\ m.state = state
              /\ m.history = history
              /\ m.historyIndex = historyIndex

\* C8 witness: a manager that has been driven, whose list holds an item, on which
\* one addItem is refused for its index and another for its key
C8_Witness ==
    /\ Live
    /\ state.version > 0
    /\ state.items # <<>>
    /\ \E call \in AddCalls : addItem(Self, call).ret = IndexError
    /\ \E call \in AddCalls :
          /\ addItem(Self, call).ret = DuplicateError
          /\ "index" \in DOMAIN call => call.index \in 0..Len(state.items)

\* the calls that assert the manager is not destroyed, and the other calls
GuardedCalls ==
    SetCalls \cup AddCalls \cup RemoveCalls \cup UpdateCalls \cup BatchCalls
    \cup ExpandCalls \cup ConfigCalls \cup RestoreCalls
UnguardedCalls ==
    {[op |-> "undo"], [op |-> "redo"], [op |-> "clearHistory"], [op |-> "destroy"]}

\* C9: destroy() leaves items, expanded and version as they are; on a destroyed
\* manager setItems, addItem, removeItem, updateItem, batch, toggleExpand,
\* setExpanded, updateConfig and restoreSnapshot throw, and every call, undo, redo,
\* clearHistory and destroy included, leaves the manager destroyed with the same
\* items, expanded and version.
C9_DestroyedIsFrozen ==
    /\ destroy(Self).destroyed
    /\ destroy(Self).state = state
    /\ destroyed =>
          \A call \in GuardedCalls \cup UnguardedCalls :
              \A m \in {dispatch(Self, call)} :
                 /\ m.destroyed
                 /\ m.state.items = state.items
                 /\ m.state.expanded = state.expanded
                 /\ m.state.version = state.version
                 /\ call \in GuardedCalls => m.ret = DestroyedError

\* C9 witness: a manager destroyed after a commit, whose pointer still
\* designates a snapshot of the history that destroy() emptied
C9_Witness ==
    /\ destroyed
    /\ state.version > 0
    /\ historyIndex > 0
    /\ history = <<>>
    /\ undo(Self).ret = UndefinedError

\* C10: for every key and configuration, called directly or inside a batch
\* callback, removeItem(key) returns true only if an item with that key was in the
\* list (the list before the batch, or the list the calls queued before it make),
\* and once the call or the batch has committed, getItem(key) is undefined.
C10_RemoveItemRemoves ==
    Live =>
        /\ \A key \in Keys :
              LET m == removeItem(Self, key)
              IN /\ m.ret = "true" => SomeKey(state.items, key)
                 /\ getItem(m, key) = {}
        /\ \A callback \in PureCallbacks :
              \A n \in 1..Len(callback.calls) :
                  LET call == callback.calls[n]
                      m == batch(Self, callback)
                  IN call.op = "removeItem" =>
                        /\ m.rets[n] = "true" =>
                              \/ SomeKey(state.items, call.key)
                              \/ SomeKey(AppliedInOrder(state.items, SubSeq(callback.calls, 1, n - 1)),
                                         call.key)
                        /\ getItem(m, call.key) = {}

\* the keys a caller can name: those of the inputs and one no item ever has
AnyKeys == Keys \cup {"zz"}

\* C11: outside a batch, on a live manager, removeItem(key) and
\* updateItem(key, fields) with a key that is not in the list return false without
\* throwing and leave items, expanded, version, visibleItems and the history as
\* they are.
C11_MissingKeyIsNoOp ==
    Live =>
        \A key \in AnyKeys :
            (\A k \in 1..Len(state.items) : state.items[k].key # key) =>
                \A m \in {removeItem(Self, key)} \cup {updateItem(Self, key, u) : u \in Updates} :
                   /\ m.ret = "false"
                   /\ m.state = state
                   /\ m.history = history
                   /\ m.historyIndex = historyIndex

\* C11 witness: a manager that has been driven and holds an item, on which
\* removeItem finds one key and misses another
C11_Witness ==
    /\ Live
    /\ state.version > 0
    /\ state.items # <<>>
    /\ \E key \in Keys : removeItem(Self, key).ret = "false"
    /\ \E key \in Keys : removeItem(Self, key).ret = "true"
    /\ \E key \in Keys, u \in Updates : updateItem(Self, key, u).ret = "false"

\* new is old with the fields of updates laid over the first item of that key, and
\* every other item, every key and every position as in old
Patched(old, new, key, updates) ==
    /\ Len(new) = Len(old)
    /\ \A k \in 1..Len(old) :
          /\ new[k].key = old[k].key
          /\ IF old[k].key = key /\ \A j \in 1..(k - 1) : old[j].key # key
             THEN /\ DOMAIN new[k] = DOMAIN old[k] \cup DOMAIN updates
                  /\ \A f \in DOMAIN new[k] :
                        new[k][f] = IF f \in DOMAIN updates THEN updates[f] ELSE old[k][f]
             ELSE new[k] = old[k]

\* a callback that makes the one call updateItem(key, updates)
UpdateOnly(key, updates) ==
    [calls |-> <<[op |-> "updateItem", key |-> key, updates |-> updates]>>, throws |-> FALSE]

\* C12: updateItem(key, fields), called directly or as the one call of a batch,
\* changes no key and no position of the list, and only the supplied fields of the
\* targeted item.
C12_UpdateItemPatchesInPlace ==
    Live =>
        \A key \in AnyKeys, updates \in Updates :
            /\ \A m \in {updateItem(Self, key, updates)} :
                  Patched(state.items, m.state.items, key, updates)
            /\ \A m \in {batch(Self, UpdateOnly(key, updates))} :
                  Patched(state.items, m.state.items, key, updates)

\* the lists given to setItems in the claims: the input lists, those of two items,
\* and the list getItems() returns
GivenLists == SeqsOf(InputItems, {0, 1, 2}) \cup {state.items}

\* the number of items of a key
CountKey(items, key) == Cardinality({k \in 1..Len(items) : items[k].key = key})

C14_HomeInjectedOnce ==
    /\ \A given \in Givens :
          \A m \in {constructor(given)}, normalized \in {normalizeItems(given.items, 0)} :
             /\ m.state.items = IF m.config.showHome /\ CountKey(normalized, "home") = 0
                                THEN <<m.config.homeItem>> \o normalized
                                ELSE normalized
             /\ CountKey(m.state.items, m.config.homeItem.key)
                   <= Max(1, CountKey(given.items, m.config.homeItem.key))
    /\ Live =>
          \A L \in GivenLists :
              \A m \in {setItems(Self, L)}, normalized \in {normalizeItems(L, keySeq)} :
                 /\ m.state.items = IF config.showHome /\ CountKey(normalized, "home") = 0
                                    THEN <<config.homeItem>> \o normalized
                                    ELSE normalized
                 /\ CountKey(m.state.items, config.homeItem.key)
                       <= Max(1, CountKey(L, config.homeItem.key))

\* the calls of the model
AllCalls == GuardedCalls \cup UnguardedCalls

\* a call that has committed a state: it has not thrown and, where the method
\* reports or decides it, it has taken effect
Committed(call, m) ==
    /\ ~Thrown(m)
    /\ call.op \in {"removeItem", "updateItem", "undo", "redo"} => m.ret = "true"
    /\ call.op = "setExpanded" => call.expanded # state.expanded
    /\ call.op \notin {"updateConfig", "clearHistory", "destroy"}

\* C15: version never decreases, and no two different states carry the same
\* version: every call that changes the state makes version greater, every
\* committing call (setItems, a successful addItem/removeItem/updateItem, batch,
\* an effective setExpanded/toggleExpand, restoreSnapshot, a successful undo/redo)
\* makes it greater, and no recorded snapshot has a version above the current one.
C15_VersionGrows ==
    /\ \A k \in 1..Len(history) : history[k].version <= state.version
    /\ \A call \in AllCalls :
          \A m \in {dispatch(Self, call)} :
             /\ m.state.version >= state.version
             /\ m.state # state => m.state.version > state.version
             /\ Committed(call, m) => m.state.version > state.version

\* C15 witness: a state from which undo() succeeds and restores a snapshot whose
\* recorded version is below the current one
C15_Witness ==
    /\ historyIndex >= 1
    /\ historyIndex < Len(history)
    /\ history[historyIndex].version < state.version
    /\ undo(Self).ret = "true"
    /\ undo(Self).state.version > state.version
    /\ undo(Self).state.items = history[historyIndex].items

\* C16: on a live manager setExpanded(v) with v the current flag emits nothing and
\* leaves state and history as they are; with v not the current flag it sets the
\* flag to v, raises version by exactly 1 and emits exactly one expandChange event
\* carrying {expanded: v}; toggleExpand() does what setExpanded(not current) does,
\* and a second toggle brings the flag back.
C16_SetExpanded ==
    Live =>
        /\ \A v \in BOOLEAN :
              \A m \in {setExpanded(Self, v)} :
                 IF v = state.expanded
                 THEN /\ m.emitted = <<>>
                      /\ m.state = state
                      /\ m.history = history
                      /\ m.historyIndex = historyIndex
                 ELSE /\ m.state.expanded = v
                      /\ m.state.version = state.version + 1
                      /\ m.emitted = <<[event |-> "expandChange", data |-> [expanded |-> v]]>>
        /\ \A m \in {toggleExpand(Self)} :
              /\ m = setExpanded(Self, ~state.expanded)
              /\ m.state.expanded = ~state.expanded
              /\ toggleExpand([m EXCEPT !.emitted = <<>>]).state.expanded = state.expanded

\* C16 witness: an expanded manager on which setExpanded(true) changes nothing and
\* setExpanded(false) emits the event
C16_Witness ==
    /\ Live
    /\ state.expanded
    /\ setExpanded(Self, TRUE).emitted = <<>>
    /\ setExpanded(Self, FALSE).emitted = <<[event |-> "expandChange", data |-> [expanded |-> FALSE]]>>
    /\ toggleExpand(Self).state.expanded = FALSE

\* updateConfig of one of the three numbers of the collapse
NumberCalls ==
    {[op |-> "updateConfig", config |-> partial] :
        partial \in {[maxItems |-> n] : n \in 0..2}
                   \cup {[itemsBeforeCollapse |-> n] : n \in 0..2}
                   \cup {[itemsAfterCollapse |-> n] : n \in 0..2}}

\* C17: in every reachable state the stored visibleItems is calculateVisibleItems
\* of the current items under the live maxItems, itemsBeforeCollapse and
\* itemsAfterCollapse, and stays so after every call; updateConfig of one of the
\* three numbers leaves the items as they are.
C17_VisibleItemsFollow ==
    /\ state.visibleItems = calculateVisibleItems(state.items, config)
    /\ \A call \in AllCalls \cup NumberCalls :
          \A m \in {dispatch(Self, call)} :
             /\ m.state.visibleItems = calculateVisibleItems(m.state.items, m.config)
             /\ call \in NumberCalls => m.state.items = state.items

\* C17 witness: a list of two items collapsed under maxItems = 1, which
\* updateConfig({maxItems: 0}) shows whole and undo() leaves collapsed
C17_Witness ==
    /\ Live
    /\ config.maxItems = 1
    /\ Len(state.items) = 2
    /\ state.visibleItems.needsCollapse
    /\ ~updateConfig(Self, [maxItems |-> 0]).state.visibleItems.needsCollapse
    /\ undo(Self).ret = "true"

\* C18: while expanded is true getVisibleItems() returns needsCollapse = false,
\* beforeItems the whole list and collapsedItems and afterItems empty; while
\* expanded is false it returns the stored projection.
C18_ExpandedShowsAll ==
    \A v \in {getVisibleItems(Self)} :
        IF state.expanded
        THEN /\ v.needsCollapse = FALSE
             /\ v.beforeItems = state.items
             /\ v.collapsedItems = <<>>
             /\ v.afterItems = <<>>
        ELSE v = state.visibleItems

\* C18 witness: an expanded manager whose stored projection collapses the list
C18_Witness ==
    /\ state.expanded
    /\ state.visibleItems.needsCollapse
    /\ state.visibleItems.beforeItems # state.items
    /\ getVisibleItems(Self).beforeItems = state.items

\* calculateVisibleItems has returned
Calculated == "needsCollapse" \in DOMAIN state.visibleItems

\* C19: for every list and every non-negative maxItems, itemsBeforeCollapse and
\* itemsAfterCollapse, beforeItems, collapsedItems and afterItems of
\* calculateVisibleItems, one after the other, are the list; their lengths add up
\* to its length and beforeItems and afterItems together are no longer than it;
\* with maxItems 0 or a list no longer than maxItems, needsCollapse is false and
\* beforeItems is the list.
C19_SegmentsPartition ==
    Calculated =>
        \A v \in {state.visibleItems} :
           /\ v.beforeItems \o v.collapsedItems \o v.afterItems = state.items
           /\ Len(v.beforeItems) + Len(v.collapsedItems) + Len(v.afterItems) = Len(state.items)
           /\ Len(v.beforeItems) + Len(v.afterItems) <= Len(state.items)
           /\ (config.maxItems = 0 \/ Len(state.items) <= config.maxItems) =>
                 (v.needsCollapse = FALSE /\ v.beforeItems = state.items)

\* C19 witness: a collapsed list whose configured tail is longer than what the
\* head leaves, so that the tail returned is shorter than configured
C19_Witness ==
    /\ Calculated
    /\ state.visibleItems.needsCollapse
    /\ state.visibleItems.beforeItems # <<>>
    /\ state.visibleItems.afterItems # <<>>
    /\ config.itemsBeforeCollapse + config.itemsAfterCollapse > Len(state.items)
    /\ Len(state.visibleItems.afterItems) < config.itemsAfterCollapse

\* C20: with maxItems > 0 the number of items calculateVisibleItems shows
\* (beforeItems and afterItems when needsCollapse is true, the whole list
\* otherwise) is at most maxItems.
C20_AtMostMaxItemsShown ==
    (Calculated /\ config.maxItems > 0) =>
        IF state.visibleItems.needsCollapse
        THEN Len(state.visibleItems.beforeItems) + Len(state.visibleItems.afterItems)
                <= config.maxItems
        ELSE Len(state.items) <= config.maxItems

\* the partial configurations that name showHome or homeItem
HomeConfigs ==
    {[showHome |-> b] : b \in BOOLEAN}
    \cup {[homeItem |-> h] : h \in HomeItems \cup Updates}
    \cup {[showHome |-> b, homeItem |-> h] : b \in BOOLEAN, h \in HomeItems \cup Updates}

\* C23: on a live manager updateConfig with showHome or homeItem present commits
\* one setItems of the list without its items of key 'home': afterwards the
\* configured home item is the default one overlaid with the fields given, with
\* showHome false no item has key 'home', with showHome true the first item is the
\* configured home item, and the items of another key follow in their order.
C23_UpdateConfigRebuildsHome ==
    Live =>
        \A partial \in HomeConfigs :
            \A m \in {updateConfig(Self, partial)},
               rest \in {SelectSeq(state.items, LAMBDA i : i.key # "home")} :
               /\ m.ret = "void"
               /\ m.config.showHome = IF "showHome" \in DOMAIN partial THEN partial.showHome
                                       ELSE config.showHome
               /\ m.config.homeItem =
                     IF "homeItem" \in DOMAIN partial
                     THEN [f \in {"key", "label"} |->
                             IF f \in DOMAIN partial.homeItem THEN partial.homeItem[f]
                             ELSE DEFAULT_HOME_ITEM[f]]
                     ELSE config.homeItem
               /\ m.state.version = state.version + 1
               /\ ~m.config.showHome =>
                     /\ CountKey(m.state.items, "home") = 0
                     /\ m.state.items = rest
               /\ m.config.showHome =>
                     /\ m.state.items[1] = m.config.homeItem
                     /\ Tail(m.state.items) = rest

\* C23 witness: a list that holds an item of key 'home' behind another item, which
\* updateConfig({showHome: true}) replaces by the configured home item in front and
\* updateConfig({showHome: false}) takes out
C23_Witness ==
    /\ Live
    /\ state.version > 0
    /\ Len(state.items) = 2
    /\ state.items[1].key = "a"
    /\ state.items[2].key = "home"
    /\ updateConfig(Self, [showHome |-> TRUE]).state.items = <<config.homeItem, state.items[1]>>
    /\ updateConfig(Self, [showHome |-> FALSE]).state.items = <<state.items[1]>>

\* the instance once the caller has caught what a call threw
Caught(m) == [m EXCEPT !.ret = "void", !.rets = <<>>]

\* C24: on a live manager a batch whose callback throws after queueing calls of
\* addItem/removeItem/updateItem throws that exception to its caller, leaves items,
\* expanded, version, visibleItems and the history as before the batch, and leaves
\* the batching flag false and the queue empty: every addItem/removeItem/updateItem
\* that follows does what it would have done had the batch not been called.
C24_ThrowingBatchAppliesNothing ==
    Live =>
        \A callback \in ThrowingCallbacks :
            \A m \in {batch(Self, callback)} :
               /\ m.ret = CallbackError
               /\ m.state = state
               /\ m.history = history
               /\ m.historyIndex = historyIndex
               /\ m.isBatching = FALSE
               /\ m.batchQueue = <<>>
               /\ \A call \in AddCalls \cup RemoveCalls \cup UpdateCalls :
                     \A after \in {dispatch(Caught(m), call)} :
                        /\ after = dispatch(Self, call)
                        /\ after.batchQueue = <<>>

\* C24 witness: a manager that has been driven, and a callback that queues a call
\* which changes the list when the callback returns and throws otherwise
C24_Witness ==
    /\ Live
    /\ state.version > 0
    /\ \E callback \in ThrowingCallbacks :
          /\ Len(callback.calls) = 1
          /\ batch(Self, [callback EXCEPT !.throws = FALSE]).state.items # state.items
          /\ batch(Self, callback).ret = CallbackError
          /\ batch(Self, callback).rets # <<>>
          /\ \E call \in AddCalls :
                dispatch(Caught(batch(Self, callback)), call).state.version = state.version + 1

\* ------------------------------------------------------------------ claims on EventEmitter
\* A registration is a HandlerInfo: its id tells it from every other one, those of
\* the same handler function included, and ids grow in the order of registration.

Ids(handlers) == {handlers[n].id : n \in 1..Len(handlers)}
InfoOfId(handlers, id) == CHOOSE info \in {handlers[n] : n \in 1..Len(handlers)} : info.id = id
Registered(handlers, handler) == \E n \in 1..Len(handlers) : handlers[n].handler = handler
Last(seq) == seq[Len(seq)]

\* C25: after an emit, every one-shot registration the emit has invoked, whether
\* its handler returned or threw, is registered no more (so that no later emit
\* invokes it a second time).
C25_OnceHandlerRunsOnce ==
    \A event \in Events, data \in Payloads :
        \A E \in {EventEmitter_emit(emitter, event, data)} :
            \A k \in 1..Len(E.invoked) :
                InfoOfId(emitter.listeners[event], E.invoked[k].id).once =>
                    E.invoked[k].id \notin Ids(E.listeners[event])

\* C26: after off(event, handler) no registration of the event has that handler,
\* however often and under whatever priorities it was registered by on and once,
\* and an emit that follows does not invoke it; after offAll(event), emit(event)
\* returns false.
C26_OffRemovesEveryRegistration ==
    \A event \in Events :
        /\ \A handler \in Handlers :
              \A E \in {off(emitter, event, handler)} :
                 /\ ~Registered(E.listeners[event], handler)
                 /\ \A data \in Payloads :
                       \A k \in 1..Len(EventEmitter_emit(E, event, data).invoked) :
                           EventEmitter_emit(E, event, data).invoked[k].handler # handler
        /\ \A data \in Payloads :
              EventEmitter_emit(Settled(offAll(emitter, event)), event, data).ret = "false"

\* a comes before b: a smaller priority, or the same priority and registered earlier
Before(a, b) == a.priority < b.priority \/ (a.priority = b.priority /\ a.id < b.id)
InOrder(handlers) ==
    \A i \in 1..Len(handlers), j \in 1..Len(handlers) : i < j => Before(handlers[i], handlers[j])

\* C27: the registrations of an event are kept, and invoked by emit and by
\* emitAsync, in ascending order of priority, those of one priority in the order
\* they were registered, whatever the order and the priorities of the on/once
\* calls that made them.
C27_HandlersRunInPriorityOrder ==
    /\ \A event \in Events :
          /\ InOrder(emitter.listeners[event])
          /\ \A s \in Subscriptions, b \in BOOLEAN :
                InOrder(addListener(emitter, event, s.handler, s.priority, b).listeners[event])
          /\ \A data \in Payloads :
                \A E \in {EventEmitter_emit(emitter, event, data)} :
                    \A i \in 1..Len(E.invoked), j \in 1..Len(E.invoked) :
                        i < j => Before(InfoOfId(emitter.listeners[event], E.invoked[i].id),
                                        InfoOfId(emitter.listeners[event], E.invoked[j].id))
    /\ \A n \in 1..Len(emissions) :
          \A i \in 1..Len(emissions[n].started), j \in 1..Len(emissions[n].started) :
              i < j => Before(emissions[n].handlersCopy[emissions[n].started[i]],
                              emissions[n].handlersCopy[emissions[n].started[j]])

\* C27 witness: three registrations, two of one priority, made in another order
\* than the one they are invoked in by an emit that invokes all three
C27_Witness ==
    \E event \in Events :
        \E handlers \in {emitter.listeners[event]} :
           /\ Len(handlers) = 3
           /\ handlers[1].priority = handlers[2].priority
           /\ handlers[2].priority < handlers[3].priority
           /\ handlers[3].id < handlers[1].id
           /\ Len(EventEmitter_emit(emitter, event, "d").invoked) = 3

\* C28: emit(event, data) invokes the registrations that the event has when emit is
\* called, in their order, each with the data passed, and no other: one added by a
\* handler during the dispatch is not invoked, one removed by a handler before its
\* turn is invoked all the same; all of them are invoked unless continueOnError is
\* false and the last one invoked threw; emit returns false when the event has no
\* registration at the call, and true otherwise.
C28_EmitDispatchesToSnapshot ==
    \A event \in Events, data \in Payloads :
        \A E \in {EventEmitter_emit(emitter, event, data)}, handlers \in {emitter.listeners[event]} :
           /\ E.ret = IF Len(handlers) = 0 THEN "false" ELSE "true"
           /\ Len(E.invoked) <= Len(handlers)
           /\ \A k \in 1..Len(E.invoked) :
                 E.invoked[k] = [id |-> handlers[k].id, handler |-> handlers[k].handler,
                                 data |-> data]
           /\ \/ Len(E.invoked) = Len(handlers)
              \/ ~emitter.options.continueOnError /\ ThrowsSync(Last(E.invoked).handler)

\* C28 witness: an emit during which a handler removes a registration that has not
\* had its turn, which is invoked all the same, and a handler adds one, which is not
C28_Witness ==
    \E event \in Events :
        \E E \in {EventEmitter_emit(emitter, event, "d")}, handlers \in {emitter.listeners[event]} :
           /\ Len(handlers) = 3
           /\ Len(E.invoked) = 3
           /\ handlers[1].handler = "removes"
           /\ \E k \in 2..3 :
                 /\ handlers[k].handler = "plain"
                 /\ ~handlers[k].once
                 /\ handlers[k].id \notin Ids(E.listeners[event])
                 /\ E.invoked[k].id = handlers[k].id
           /\ \E k \in 2..3 : handlers[k].handler = "adds"
           /\ Ids(E.listeners[event]) \ Ids(handlers) # {}

\* the positions of a sequence of HandlerInfo whose handler throws
Failing(handlers) == {n \in 1..Len(handlers) : ThrowsSync(handlers[n].handler)}

\* C29: emit returns true or false and never throws what a handler threw: onError
\* gets one error for each invoked handler that threw, in order; with
\* continueOnError every registration of the snapshot is invoked; without it those
\* up to the first one that throws are, and no other.  A call of emitAsync does the
\* same with a handler that throws or whose promise rejects: it hands one error per
\* failing handler to onError, starts every handler of its snapshot with
\* continueOnError, none after the first failing one without, and resolves with true.
C29_HandlerErrorsAreContained ==
    /\ \A event \in Events, data \in Payloads :
          \A E \in {EventEmitter_emit(emitter, event, data)}, handlers \in {emitter.listeners[event]} :
             /\ E.ret \in {"true", "false"}
             /\ Len(handlers) > 0 => E.ret = "true"
             /\ Len(E.errors) = Len(SelectSeq(E.invoked, LAMBDA r : ThrowsSync(r.handler)))
             /\ E.errors = [k \in 1..Len(E.errors) |->
                              [error |-> SelectSeq(E.invoked, LAMBDA r : ThrowsSync(r.handler))[k].id,
                               event |-> event]]
             /\ emitter.options.continueOnError => Len(E.invoked) = Len(handlers)
             /\ ~emitter.options.continueOnError =>
                   Len(E.invoked) = IF Failing(handlers) = {} THEN Len(handlers)
                                    ELSE CHOOSE n \in Failing(handlers) :
                                            \A j \in Failing(handlers) : n <= j
    /\ \A n \in 1..Len(emissions) :
          \A c \in {emissions[n]} :
             /\ Len(c.errors) <= Len(c.started)
             /\ \A i \in 1..Len(c.errors), j \in 1..Len(c.errors) : i # j => c.errors[i] # c.errors[j]
             /\ \A i \in 1..Len(c.errors) : c.errors[i] \in Ids(c.handlersCopy)
             /\ ~emitter.options.continueOnError =>
                   /\ Len(c.errors) <= 1
                   /\ c.errors # <<>> =>
                         /\ c.status = "returned"
                         /\ c.errors[1] = c.handlersCopy[Last(c.started)].id
             /\ c.status = "returned" =>
                   /\ c.ret = IF Len(c.handlersCopy) = 0 THEN "false" ELSE "true"
                   /\ c.pending = {}
                   /\ (emitter.options.continueOnError \/ c.errors = <<>>) =>
                         Len(c.started) = Len(c.handlersCopy)

\* C29 witness: without continueOnError, a call of emitAsync that has returned true
\* after the promise of its first handler rejected, its second handler never started,
\* on an emitter whose first registration throws and is not the last
C29_Witness ==
    /\ ~emitter.options.continueOnError
    /\ \E n \in 1..Len(emissions) :
          /\ emissions[n].status = "returned"
          /\ emissions[n].ret = "true"
          /\ Len(emissions[n].handlersCopy) >= 2
          /\ emissions[n].started = <<1>>
          /\ Len(emissions[n].errors) = 1
          /\ ~ThrowsSync(emissions[n].handlersCopy[1].handler)
    /\ \E event \in Events :
          /\ Len(emitter.listeners[event]) >= 2
          /\ Len(EventEmitter_emit(emitter, event, "d").invoked) = 1
          /\ Len(EventEmitter_emit(emitter, event, "d").errors) = 1

\* C30: in a call of emitAsync at most one handler has been started and has a
\* promise that is not settled, and it is the last one started; the handlers have
\* been started in the order of the snapshot, which is the order of priority, none
\* left out: the next one is started only once the promise of the one before has
\* settled.
C30_EmitAsyncAwaitsEachHandler ==
    \A n \in 1..Len(emissions) :
        \A c \in {emissions[n]} :
           /\ Cardinality(c.pending) <= 1
           /\ c.started = [k \in 1..Len(c.started) |-> k]
           /\ Len(c.started) <= Len(c.handlersCopy)
           /\ InOrder(c.handlersCopy)
           /\ c.status = "awaiting" => c.pending = {Last(c.started)}
           /\ c.status = "returned" => c.pending = {}

\* C30 witness: a call of emitAsync over three handlers that awaits the promise of
\* the second, the third one not started
C30_Witness ==
    \E n \in 1..Len(emissions) :
        /\ emissions[n].status = "awaiting"
        /\ Len(emissions[n].handlersCopy) = 3
        /\ emissions[n].started = <<1, 2>>
        /\ emissions[n].pending = {2}
        /\ ~ThrowsSync(emissions[n].handlersCopy[1].handler)


\* ------------------------------------------------------------------ claims on the manager and its caller
\* (specification SpecHeap)

\* what the read operations return, as values: the items, the flag and the three
\* parts shown, read through the references of the state
Reads(h, st) ==
    [items |-> Deref(h, st.items),
     expanded |-> st.expanded,
     beforeItems |-> Deref(h, st.visibleItems.beforeItems),
     collapsedItems |-> Deref(h, st.visibleItems.collapsedItems),
     afterItems |-> Deref(h, st.visibleItems.afterItems),
     needsCollapse |-> st.visibleItems.needsCollapse]

\* the items the manager holds
StateItems == Reach(heap, StateArrays(state)) \ StateArrays(state)

\* structuredClone or the JSON round trip copies every item the manager holds
Cloneable == \A a \in StateItems : heap[a].meta # "functionInCycle"

\* no change to an object reached from the roots changes what the reads return
Untouched(h, st, roots) ==
    /\ Reach(h, roots) \cap Reach(h, StateArrays(st)) = {}
    /\ \A a \in Reach(h, roots) : Reads(Mutated(h, a), st) = Reads(h, st)

\* the manager after each of the read operations, with the value returned in ret
AfterRead ==
    {Heap_getItems(HeapSelf), Heap_getItem(HeapSelf, "a"), Heap_getItem(HeapSelf, "b"),
     Heap_getState(HeapSelf), Heap_getVisibleItems(HeapSelf)}

C22_RestoreSharesNothingWithSnapshot ==
    HoldsSnapshot =>
        \A H \in {Heap_restoreSnapshot(HeapSelf, caller.snapshot)} :
            /\ Deref(H.heap, caller.snapshot.items) = Deref(heap, caller.snapshot.items)
            /\ Untouched(H.heap, H.state, {caller.snapshot.items})
            /\ \A H2 \in {Heap_updateItem(H, "a", [label |-> "y"]), Heap_setExpanded(H, TRUE)} :
                  /\ Deref(H2.heap, caller.snapshot.items) = Deref(heap, caller.snapshot.items)
                  /\ \A H3 \in {Heap_restoreSnapshot(H2, caller.snapshot)} :
                        /\ Deref(H3.heap, H3.state.items) = Deref(H.heap, H.state.items)
                        /\ H3.state.expanded = H.state.expanded

\* ------------------------------------------------------------------ more claims on calculateVisibleItems
\* (specification SpecVisible)

\* C40: whenever calculateVisibleItems returns needsCollapse = true, collapsedItems
\* is not empty: at least one item is hidden, for every list and every
\* non-negative maxItems, itemsBeforeCollapse and itemsAfterCollapse.
C40_CollapseHidesAnItem ==
    (Calculated /\ state.visibleItems.needsCollapse) =>
        state.visibleItems.collapsedItems # <<>>

\* ------------------------------------------------------------------ normalizeItems alone
\* The function on its own argument: state.items holds the list given and
\* state.normalized the list returned once the function has been applied
\* (state.returned); applied again, it is given the list it has returned.
MaxNormalized == 3

NormalizeInit ==
    \E items \in SeqsOf({[key |-> k, label |-> l] : k \in {"a", NoKey}, l \in {"x", "y"}},
                        0..MaxNormalized),
       n \in 0..MaxGen :
        /\ state = [items |-> items, normalized |-> <<>>, returned |-> FALSE]
        /\ keySeq = n
        /\ config = <<>>
        /\ history = <<>>
        /\ historyIndex = -1
        /\ isBatching = FALSE
        /\ batchQueue = <<>>
        /\ destroyed = FALSE
        /\ emitter = NewEmitter(DEFAULT_OPTIONS)
        /\ emissions = <<>>
        /\ heap = <<>>
        /\ caller = <<>>

NormalizeItems ==
    \E items \in {IF state.returned THEN state.normalized ELSE state.items} :
        /\ state' = [items |-> items, normalized |-> normalizeItems(items, keySeq),
                     returned |-> TRUE]
        /\ keySeq' = keySeq + Keyless(items)
        /\ UNCHANGED <<config, history, historyIndex, isBatching, batchQueue, destroyed,
                       emitter, emissions, heap, caller>>

NormalizeNext == NormalizeItems

SpecNormalize == NormalizeInit /\ [][NormalizeNext]_vars

\* ------------------------------------------------------------------ claims on normalizeItems
\* (specification SpecNormalize)

\* normalizeItems has returned
Normalized == state.returned

\* the places of the items given without a key
KeylessAt(items) == {n \in 1..Len(items) : items[n].key = NoKey}

\* C31: normalizeItems returns a list of the length of the list given, in its
\* order; an item given with a key is returned unchanged in every field; an item
\* given without a key is returned with a key that is not empty and differs from
\* the other keys generated in the call, its other fields unchanged; and the list
\* returned, normalized again, is returned with the same keys in the same order.
C31_NormalizeItems ==
    Normalized =>
        \A items \in {state.items} : \A normalized \in {state.normalized} :
           /\ Len(normalized) = Len(items)
           /\ \A n \in 1..Len(items) :
                 /\ normalized[n].label = items[n].label
                 /\ DOMAIN normalized[n] = DOMAIN items[n]
                 /\ items[n].key # NoKey => normalized[n] = items[n]
                 /\ normalized[n].key # NoKey
           /\ \A i \in KeylessAt(items) : \A j \in KeylessAt(items) \ {i} :
                 normalized[i].key # normalized[j].key
           /\ \A n \in 0..(MaxGen + MaxNormalized) :
                 normalizeItems(normalized, n) = normalized

\* two items given without a key between which an item has a key have been given
\* two keys, and the list returned has been normalized again
C31_Witness ==
    /\ Normalized
    /\ Len(state.normalized) = 3
    /\ state.items = state.normalized
    /\ state.normalized[2].key = "a"
    /\ state.normalized[1].key \notin {"a", NoKey}
    /\ state.normalized[3].key \notin {"a", NoKey, state.normalized[1].key}
    /\ state.normalized[1].label # state.normalized[3].label

\* ------------------------------------------------------------------ claims on batch and its callback
\* (specification Spec)

\* the call of batch with a callback, as a callback makes it
Nested(callback) == [op |-> "batch", callback |-> callback]

\* C32: when the callback of a batch calls batch, the calls the outer batch has
\* queued before are lost: the inner batch empties the one queue and clears the
\* one flag, so that the outer batch leaves what it would have left without them.
C32_NestedBatchLosesOuterQueue ==
    Live =>
        \A call \in QueuedCalls : \A callback \in PureCallbacks :
            \A inside \in {runCallback([Self EXCEPT !.isBatching = TRUE],
                                       <<call, Nested(callback)>>)} :
            \A m \in {batch(Self, [calls |-> <<call, Nested(callback)>>, throws |-> FALSE])} :
            \A without \in {batch(Self, [calls |-> <<Nested(callback)>>, throws |-> FALSE])} :
               /\ inside.isBatching = FALSE
               /\ inside.batchQueue = <<>>
               /\ m.ret = "void"
               /\ m.state = without.state
               /\ m.history = without.history
               /\ m.historyIndex = without.historyIndex
               /\ m.keySeq = without.keySeq

\* C32 witness: a manager that has been driven, and a call that changes the list
\* when a batch queues it alone and is lost when a nested batch follows it
C32_Witness ==
    /\ Live
    /\ state.version > 0
    /\ \E call \in QueuedCalls : \E callback \in PureCallbacks :
          /\ callback.calls # <<>>
          /\ batch(Self, [calls |-> <<call>>, throws |-> FALSE]).state.items # state.items
          /\ batch(Self, [calls |-> <<call, Nested(callback)>>, throws |-> FALSE]).state.items
                = batch(Self, [calls |-> <<Nested(callback)>>, throws |-> FALSE]).state.items
          /\ batch(Self, [calls |-> <<call, Nested(callback)>>, throws |-> FALSE]).state.items
                # batch(Self, [calls |-> <<call>> \o callback.calls, throws |-> FALSE]).state.items

\* C33: a batch is atomic for every command its callback calls: while the callback
\* runs, version, getItems() and isExpanded keep the values they had before the
\* batch, also when the callback calls setItems, setExpanded, toggleExpand,
\* updateConfig or restoreSnapshot.
C33_NothingCommitsInsideCallback ==
    Live =>
        \A callback \in PureCallbacks \cup CommittingCallbacks :
            \A inside \in {runCallback([Self EXCEPT !.isBatching = TRUE, !.batchQueue = <<>>],
                                       callback.calls)} :
               /\ inside.state.version = state.version
               /\ getItems(inside) = getItems(Self)
               /\ inside.state.expanded = state.expanded

\* ------------------------------------------------------------------ claims on the history
\* (specification Spec)

\* C34: with history enabled, on a manager that is not destroyed, between two
\* public operations the history pointer designates the current state: it is an
\* index of the history, and the snapshot there has the items and the expand flag
\* of the state.
C34_PointerDesignatesCurrentState ==
    (Live /\ config.enableHistory) =>
        /\ 0 <= historyIndex
        /\ historyIndex < Len(history)
        /\ history[historyIndex + 1].items = state.items
        /\ history[historyIndex + 1].expanded = state.expanded

\* C35: in every reachable state, with history enabled or not, after an eviction,
\* after clearHistory and after destroy, canUndo is true exactly when undo() called
\* next returns true, canRedo is true exactly when redo() called next returns true,
\* and neither undo() nor redo() throws.
C35_CanUndoTellsUndo ==
    /\ canUndo(Self) <=> undo(Self).ret = "true"
    /\ canRedo(Self) <=> redo(Self).ret = "true"
    /\ ~Thrown(undo(Self))
    /\ ~Thrown(redo(Self))

\* ------------------------------------------------------------------ claims on expandChange
\* (specification Spec)

\* the call has emitted expandChange carrying the flag
Notified(m, expanded) ==
    \E k \in 1..Len(m.emitted) :
        m.emitted[k] = [event |-> "expandChange", data |-> [expanded |-> expanded]]

\* C36: every change of isExpanded is notified: when the flag after a public
\* operation (setExpanded, toggleExpand, setItems, addItem, removeItem, updateItem,
\* batch, updateConfig, restoreSnapshot, undo, redo) differs from the flag before
\* it, the operation has emitted expandChange carrying the new flag.
C36_ExpandChangeIsNotified ==
    \A call \in AllCalls :
        \A m \in {dispatch(Self, call)} :
            m.state.expanded # state.expanded => Notified(m, m.state.expanded)

\* ------------------------------------------------------------------ claims on the home item
\* (specification Spec)

\* C37: whenever the live config has showHome = true, the list of a manager that
\* is not destroyed begins with an item of key 'home', in every reachable state:
\* after construction, setItems, addItem, removeItem (of 'home' too), batch,
\* updateConfig, restoreSnapshot, undo and redo.
C37_HomeIsFirst ==
    (Live /\ config.showHome) =>
        /\ state.items # <<>>
        /\ state.items[1].key = "home"

\* ------------------------------------------------------------------ more claims on EventEmitter
\* (specification SpecEmitter)

\* C38: an emission takes out of the list of handlers only one-shot registrations
\* it has invoked: a registration made with on() is never removed by it, also when
\* the same handler function is registered with on() and with once().  (A
\* registration that a handler removes by calling off() is not removed by the
\* emission.)
C38_EmitRemovesOnlyOnces ==
    \A event \in Events, data \in Payloads :
        \A E \in {EventEmitter_emit(emitter, event, data)} :
            \A n \in 1..Len(emitter.listeners[event]) :
                \A info \in {emitter.listeners[event][n]} :
                    (/\ info.id \notin Ids(E.listeners[event])
                     /\ ~(info.handler = "plain"
                            /\ Registered(emitter.listeners[event], "removes")))
                    => /\ info.once
                       /\ \E k \in 1..Len(E.invoked) : E.invoked[k].id = info.id

\* ------------------------------------------------------------------ the manager and its subscribers
\* setExpanded with the subscribers of expandChange run inside it, as emit runs
\* them.  state holds here the expand flag of the manager (expanded), the handlers
\* registered for expandChange in the order emit takes them (listeners: manager.on
\* registers with priority 0, so the order of registration) and, for each of
\* them, the payload delivered to it last (delivered: a sequence of at most one
\* flag).  A handler is what it does with the payload:
\*   records    keeps it
\*   collapses  keeps it and, when it says expanded, calls setExpanded(false) on
\*              the manager
MaxSubscribers == 5

RECURSIVE Reentrant_setExpanded(_, _)
RECURSIVE Reentrant_emit(_, _, _, _)

\* this.emitter.emit('expandChange', { expanded }): the loop over handlersCopy from
\* its i-th element on, info.handler(data) being the body of the handler
Reentrant_emit(R, expanded, handlersCopy, i) ==
    IF i > Len(handlersCopy) THEN R
    ELSE LET R1 == [R EXCEPT !.delivered[i] = <<expanded>>]
             R2 == IF handlersCopy[i] = "collapses" /\ expanded
                   THEN Reentrant_setExpanded(R1, FALSE)
                   ELSE R1
         IN Reentrant_emit(R2, expanded, handlersCopy, i + 1)

\* setExpanded(expanded)
Reentrant_setExpanded(R, expanded) ==
    IF R.expanded # expanded
    THEN Reentrant_emit([R EXCEPT !.expanded = expanded], expanded, R.listeners, 1)
    ELSE R

ReentrantInit ==
    \E listeners \in SeqsOf({"records", "collapses"}, 0..MaxSubscribers) :
        /\ state = [expanded |-> FALSE, listeners |-> listeners,
                    delivered |-> [i \in 1..Len(listeners) |-> <<>>]]
        /\ config = <<>>
        /\ history = <<>>
        /\ historyIndex = -1
        /\ isBatching = FALSE
        /\ batchQueue = <<>>
        /\ destroyed = FALSE
        /\ keySeq = 0
        /\ emitter = NewEmitter(DEFAULT_OPTIONS)
        /\ emissions = <<>>
        /\ heap = <<>>
        /\ caller = <<>>

\* an outermost call of setExpanded, of toggleExpand
OuterSetExpanded ==
    \E expanded \in BOOLEAN :
        /\ state' = Reentrant_setExpanded(state, expanded)
        /\ UNCHANGED <<config, history, historyIndex, isBatching, batchQueue, destroyed,
                       keySeq, emitter, emissions, heap, caller>>
OuterToggleExpand ==
    /\ state' = Reentrant_setExpanded(state, ~state.expanded)
    /\ UNCHANGED <<config, history, historyIndex, isBatching, batchQueue, destroyed,
                   keySeq, emitter, emissions, heap, caller>>
\* setItems(items): updateState({ ..., expanded: false }), nothing emitted
OuterSetItems ==
    /\ state' = [state EXCEPT !.expanded = FALSE]
    /\ UNCHANGED <<config, history, historyIndex, isBatching, batchQueue, destroyed,
                   keySeq, emitter, emissions, heap, caller>>

ReentrantNext ==
    \/ OuterSetExpanded
    \/ OuterToggleExpand
    \/ OuterSetItems

SpecReentrant == ReentrantInit /\ [][ReentrantNext]_vars

\* ------------------------------------------------------------------ claims on the manager and its subscribers
\* (specification SpecReentrant)

\* every subscriber that has been delivered a payload has been delivered the flag last
UpToDate(R) ==
    \A i \in 1..Len(R.listeners) :
        R.delivered[i] # <<>> => R.delivered[i] = <<R.expanded>>

\* C39: once an outermost call of setExpanded or toggleExpand has
\* returned, the payload of expandChange delivered last to each subscriber carries
\* the flag isExpanded, also when a subscriber calls setExpanded or toggleExpand
\* on the manager from inside its handler.
C39_LastPayloadIsTheFlag ==
    \A expanded \in BOOLEAN : UpToDate(Reentrant_setExpanded(state, expanded))

====
